---- MODULE Spec2Model ----
\* Model of the service lifecycle manager of Educentr/goat
\* (tools/services/manager.go): Start, Stop, Restart, RestartAll and
\* ListRunning over a set of named services, with the errgroup-driven
\* priority groups of Start and the parallel terminations of Stop modelled
\* one goroutine step at a time (specification Spec), and of the runner
\* Registry (tools/services/helpers.go) used by concurrent goroutines, with
\* its read-write mutex modelled one lock step at a time (specification
\* SpecRegistry).
EXTENDS Integers, Sequences, FiniteSets, TLC

\* ---------------------------------------------------------------- bounds
\* Number of top-level Manager calls (Start, Stop, Restart, RestartAll)
\* issued in one behaviour.
MaxOps == 2
\* Number of failing runner / health-check / Terminate calls in one behaviour.
MaxFaults == 2
\* Number of Registry calls issued in one behaviour.
MaxCalls == 4
\* Number of calls issued by the goroutines that share one Manager.
MaxThreadCalls == 3
\* Calls made by the goroutine that uses the Builder and DefaultRegistry.
MaxBuilderCalls == 4
\* Longest names... list passed to WithServices or NewServicesMap.
MaxNames == 2
\* Largest cfg.Cycles of WaitAppMigration, and the largest migration version.
MaxCycles == 3
MaxVersion == 2
\* Longest output stream written to a PatternDetector.
MaxStream == 4
\* Build calls made in one process.
MaxBuilds == 2
MaxFlowCalls == 2
\* Service names; NameOrder is their lexicographic order (sort.Strings).
Names == {"a", "b", "c"}
NameOrder == <<"a", "b", "c">>
Priorities == {0, 1}
MaxParallelValues == {0, 1, 2}

\* ---------------------------------------------------------------- helpers
Range(f) == {f[x] : x \in DOMAIN f}

EmptyMap == [x \in {} |-> 0]

MapRemove(f, k) == [x \in DOMAIN f \ {k} |-> f[x]]

MapPut(f, k, v) == [x \in DOMAIN f \cup {k} |-> IF x = k THEN v ELSE f[x]]

\* All orders in which a map with key set S can be iterated.
PermSeqs(S) ==
  {s \in [1..Cardinality(S) -> S] : \A i, j \in 1..Cardinality(S) : s[i] = s[j] => i = j}

NameIndex(n) == CHOOSE i \in 1..Len(NameOrder) : NameOrder[i] = n

NameLess(x, y) == NameIndex(x) < NameIndex(y)

RECURSIVE InsertString(_, _)
InsertString(x, s) ==
  IF s = <<>> THEN <<x>>
  ELSE IF NameLess(Head(s), x) THEN <<Head(s)>> \o InsertString(x, Tail(s))
  ELSE <<x>> \o s

\* sort.Strings
RECURSIVE SortStrings(_)
SortStrings(s) ==
  IF s = <<>> THEN <<>> ELSE InsertString(Head(s), SortStrings(Tail(s)))

RECURSIVE InsertInt(_, _)
InsertInt(x, s) ==
  IF s = <<>> THEN <<x>>
  ELSE IF Head(s) < x THEN <<Head(s)>> \o InsertInt(x, Tail(s))
  ELSE <<x>> \o s

\* sort.Ints
RECURSIVE SortInts(_)
SortInts(s) ==
  IF s = <<>> THEN <<>> ELSE InsertInt(Head(s), SortInts(Tail(s)))

\* ---------------------------------------------------------------- errors
NoErr == [kind |-> "nil", ServiceName |-> "", Detail |-> ""]

ErrDependencyNotMet(name, dep) ==
  [kind |-> "DependencyNotMet", ServiceName |-> name, Detail |-> dep]

ErrServiceNotFound(name) ==
  [kind |-> "ServiceNotFound", ServiceName |-> name, Detail |-> ""]

ErrServiceStartFailed(name, cause) ==
  [kind |-> "ServiceStartFailed", ServiceName |-> name, Detail |-> cause]

ErrHealthCheckFailed(name, cause) ==
  [kind |-> "HealthCheckFailed", ServiceName |-> name, Detail |-> cause]

ErrServiceNotRunning(name) ==
  [kind |-> "ServiceNotRunning", ServiceName |-> name, Detail |-> ""]

ErrServiceStopFailed(name, cause) ==
  [kind |-> "ServiceStopFailed", ServiceName |-> name, Detail |-> cause]

ErrServiceTypeMismatch(name, expected) ==
  [kind |-> "ServiceTypeMismatch", ServiceName |-> name, Detail |-> expected]

ErrServiceAlreadyRegistered(name) ==
  [kind |-> "ServiceAlreadyRegistered", ServiceName |-> name, Detail |-> ""]

\* ---------------------------------------------------------------- configuration
Config(en, pr, deps, hc) ==
  [Enabled |-> en, Priority |-> pr, Dependencies |-> deps, HealthCheck |-> hc]

EnabledNames(cfg) == {n \in DOMAIN cfg : cfg[n].Enabled}

\* The Dependencies lists a service is configured with.
DepLists == {<<>>, <<"a">>, <<"b">>, <<"c">>, <<"a", "c">>}

Statuses == {"absent", "disabled", "enabled"}

\* The configurations a Manager is constructed with.  The manager treats all
\* names alike and only compares priorities, so the family fixes which name
\* carries which feature and uses priority 0 in every configuration:
\* "a" is enabled and may have a health check; "b" is configured (enabled or
\* disabled) and carries the Dependencies list; "c" is absent, or disabled,
\* or the third of three enabled services: three plain services of one
\* priority, or "a" first and then "b", which depends on "a", with "c".
ServicesMaps ==
  {[n \in {"a", "b"} \cup (IF t.c = "absent" THEN {} ELSE {"c"}) |->
       CASE n = "a" -> Config(TRUE, t.pa, <<>>, t.hc)
         [] n = "b" -> Config(t.enb, IF t.enb THEN t.pb ELSE 0, t.deps, FALSE)
         [] n = "c" -> Config(t.c = "enabled",
                              IF t.c = "enabled" THEN t.pb ELSE 0, <<>>, FALSE)] :
     t \in {x \in [pa : Priorities, pb : Priorities, hc : BOOLEAN, enb : BOOLEAN,
                    deps : DepLists, c : Statuses] :
              /\ x.pa = 0 \/ (x.enb /\ x.pb = 0)
              /\ x.c = "disabled" => x.deps = <<>> \/ "c" \in Range(x.deps)
              /\ x.c = "enabled" => /\ x.enb /\ x.pa = 0
                                    /\ x.deps = IF x.pb = 0 THEN <<>> ELSE <<"a">>
              /\ x.hc => x.enb /\ x.deps \in {<<>>, <<"a">>} /\ x.pa = 0 /\ x.c = "absent"
              /\ ~x.enb => x.pb = 0 /\ x.deps \in {<<>>, <<"c">>}}}

\* The registries a Manager is bound to: every name has a runner, except
\* possibly "b" when it is the dependant of "a" or of nothing.
Registries(cfg) ==
  IF /\ cfg["b"].Enabled
     /\ cfg["b"].Dependencies \in {<<>>, <<"a">>}
     /\ ~cfg["a"].HealthCheck
     /\ "c" \notin DOMAIN cfg
  THEN {Names, Names \ {"b"}}
  ELSE {Names}

DefaultManagerConfig == [MaxParallel |-> 10, StopOnError |-> TRUE]

ManagerConfigs == [MaxParallel : MaxParallelValues, StopOnError : BOOLEAN]

\* The composite literals ManagerConfig{...} a caller can write: each of the
\* fields MaxParallel and StopOnError is given or left out.
ManagerConfigLiterals ==
  {[f \in {} |-> 0]}
    \cup {[MaxParallel |-> p] : p \in MaxParallelValues}
    \cup {[StopOnError |-> b] : b \in BOOLEAN}
    \cup {[MaxParallel |-> p, StopOnError |-> b] : p \in MaxParallelValues, b \in BOOLEAN}

\* The value of a literal: a field left out has Go's zero value, and
\* NewManager stores the value as it is (it only fills in Logger).
ManagerConfigOf(l) ==
  [MaxParallel |-> IF "MaxParallel" \in DOMAIN l THEN l.MaxParallel ELSE 0,
   StopOnError |-> IF "StopOnError" \in DOMAIN l THEN l.StopOnError ELSE FALSE]

\* ---------------------------------------------------------------- state
VARIABLES
  config,       \* Manager.config: the ServicesMap given to NewManager
  mconfig,      \* Manager.mconfig
  registry,     \* names with a runner in Manager.registry
  running,      \* Manager.running: name -> ServiceEnv
  tempManager,  \* RestartAll's transient manager: [config, running]
  renvs,        \* RestartAll: the snapshot of the running set taken on entry
  self,         \* the manager the executing Start/Stop belongs to: "m" or "temp"
  pc,           \* position of the calling goroutine
  stack,        \* continuations of the callers of the executing function
  rv,           \* error returned by the function that returned last
  groups,       \* Start: result of groupByPriority
  prios,        \* Start: priorities still to be ranged over
  startErr,     \* Start: err of the failed startGroup
  eg,           \* startGroup: the errgroup and its goroutines
  envs,         \* Stop: the sorted snapshot
  seg,          \* Stop: the errgroup and its goroutines
  containers,   \* every container a runner created: handle -> Terminate calls
  ops,          \* top-level calls issued so far
  faults,       \* failing external calls so far
  hist,         \* what happened during the current top-level call
  listed,       \* what ListRunning returned last
  runners,      \* Registry.runners: name -> runner
  mu,           \* Registry.mu: the writer and the readers holding it
  gs,           \* the goroutines calling the Registry: position, call, result
  calls,        \* Registry calls issued so far
  live,         \* name -> runner according to the Register and Unregister
                \* calls that have returned, in the order of their returns
  wins,         \* name -> Register calls that returned nil
  removed,      \* name -> returned Unregister calls that found the name in live
  mmu,          \* Manager.mu: the writer and the readers holding it
  ths,          \* goroutines inside startService, stopService or an accessor
                \* of the Manager: position, call, result
  tcalls,       \* calls issued by these goroutines so far
  bld,          \* a Builder of the root services package, its last call and
                \* what the last NewServicesMap returned
  main,         \* CallMain: position, exitCode and the calls made so far
  dm,           \* diffMaps: the two maps given and the three maps returned
  wm,           \* WaitAppMigration: cfg.Cycles, the attempts made, the result
  pd,           \* a PatternDetector, the stream still to be written to it and
                \* the part already written
  xb,           \* the process environment, the ExecutorBuilders and the
                \* Executors built from them
  fl            \* a Flow: position in Start / Stop and the calls made so far

\* The Registry under concurrent use.
regvars == <<runners, mu, gs, calls, live, wins, removed>>

\* The Manager.
mgrvars == <<config, mconfig, registry, running, tempManager, renvs, self, pc, stack,
             rv, groups, prios, startErr, eg, envs, seg, containers, ops, faults,
             hist, listed>>

\* The Manager's mutex and the goroutines using the Manager concurrently.
thrvars == <<mmu, ths, tcalls>>

\* The Builder over DefaultRegistry, and TestMain's CallMain.
extvars == <<bld, main>>

\* The helpers of package tools: diffMaps, WaitAppMigration, PatternDetector,
\* ExecutorBuilder and Flow.
toolvars == <<dm, wm, pd, xb, fl>>

vars == <<mgrvars, regvars, thrvars, extvars, toolvars>>

\* What the helpers of package tools leave alone.
offTools == <<mgrvars, regvars, thrvars, extvars>>

\* What the Registry's goroutines leave alone.
offRegistry == <<mgrvars, thrvars, extvars, toolvars>>

\* Goroutines that share one Registry, the names they register and the
\* runners they pass.
Goroutines == {"g1", "g2", "g3"}
RegistryNames == {"a", "b"}

\* Goroutines that share one Manager, and the names they ask for.
Threads == {"t1", "t2"}
ThreadNames == {"a", "b"}
Runners == {"r1", "r2"}
NilRunner == "nil"

NoLock == [w |-> "", r |-> {}]
NoRet == [err |-> NoErr, runner |-> NilRunner, ok |-> FALSE, names |-> <<>>]
IdleGoroutine == [pc |-> "idle", op |-> "none", name |-> "", runner |-> NilRunner,
                  ret |-> NoRet]

\* NewRegistry(), not yet used by any goroutine.
NewRegistry ==
  /\ runners = EmptyMap
  /\ mu = NoLock
  /\ gs = [g \in Goroutines |-> IdleGoroutine]
  /\ calls = 0
  /\ live = EmptyMap
  /\ wins = [n \in RegistryNames |-> 0]
  /\ removed = [n \in RegistryNames |-> 0]

NoManager == [config |-> EmptyMap, running |-> EmptyMap]
NoGroup == [pending |-> {}, units |-> EmptyMap, err |-> NoErr, active |-> 0]
NoStopGroup == [next |-> 1, units |-> EmptyMap, err |-> NoErr]
NotListed == <<"-">>
NoContainer == [svc |-> "", id |-> 0]
NilEnv == [Name |-> "", Container |-> NoContainer,
           Config |-> [Enabled |-> FALSE, Priority |-> 0, Dependencies |-> <<>>,
                       HealthCheck |-> FALSE]]

\* What an accessor returned: the fields its signature has are filled in.
NoResult == [err |-> NoErr, env |-> NilEnv, container |-> NoContainer, ok |-> FALSE,
             names |-> NotListed, panic |-> FALSE]
\* during: the goroutines that have been inside one container call (Run,
\* Check, Terminate) for as long as this goroutine's call has lasted.
IdleThread == [pc |-> "idle", op |-> "none", name |-> "", i |-> 1, env |-> NilEnv,
               container |-> NoContainer, ret |-> NoResult, during |-> {}]

NoHist ==
  [op |-> "none",                     \* the top-level call in progress
   arg |-> "",                        \* its serviceName argument
   attempted |-> {},                  \* services whose startService was entered
   runCalls |-> [n \in Names |-> 0],  \* runner.Run invocations
   hcCalls |-> [n \in Names |-> 0],   \* HealthCheck.Check invocations
   uerr |-> EmptyMap,                 \* result of each finished startService
   first |-> NoErr,                   \* the first error a startService returned
   checks |-> {},                     \* dependency checks and what they saw
   stored |-> {},                     \* containers inserted into a running set
   gone |-> {},                       \* names deleted from the running set
   termCalls |-> EmptyMap,            \* container -> Terminate invocations
   stopErrs |-> {},                   \* errors returned by stopService
   before |-> {},                     \* containers running when the call began
   was |-> EmptyMap]                  \* m.running when the call began

SelfRunning == IF self = "m" THEN running ELSE tempManager.running

SelfConfig == IF self = "m" THEN config ELSE tempManager.config

SetSelfRunning(r) ==
  IF self = "m"
  THEN running' = r /\ UNCHANGED tempManager
  ELSE tempManager' = [tempManager EXCEPT !.running = r] /\ UNCHANGED running

\* Outcomes an external call (runner, health check, Terminate) can have.
Outcomes == IF faults < MaxFaults THEN {TRUE, FALSE} ELSE {TRUE}

Fault(ok) == faults' = IF ok THEN faults ELSE faults + 1

\* A fresh container handle for service n.
NewContainer(n) ==
  [svc |-> n, id |-> 1 + Cardinality({c \in DOMAIN containers : c.svc = n})]

TypeOK ==
  /\ DOMAIN running \subseteq Names
  /\ pc \in {"idle", "Start.loop", "startGroup", "Start.cleanup", "Stop",
            "Restart.stop", "Restart.start", "RestartAll.stopped",
            "RestartAll.started"}
  /\ ops \in 0..MaxOps
  /\ faults \in 0..MaxFaults

\* A manager as NewManager returns it: nothing running, no call in progress.
ManagerIdle ==
  /\ running = EmptyMap
  /\ tempManager = NoManager
  /\ renvs = {}
  /\ self = "m"
  /\ pc = "idle"
  /\ stack = <<>>
  /\ rv = NoErr
  /\ groups = EmptyMap
  /\ prios = <<>>
  /\ startErr = NoErr
  /\ eg = NoGroup
  /\ envs = <<>>
  /\ seg = NoStopGroup
  /\ containers = EmptyMap
  /\ ops = 0
  /\ faults = 0
  /\ hist = NoHist
  /\ listed = NotListed

\* No goroutine is inside the Manager and its mutex is free.
NoThreads ==
  /\ mmu = NoLock
  /\ ths = [g \in Threads |-> IdleThread]
  /\ tcalls = 0

\* NewBuilder(): an empty ServicesMap; no call made on it yet.
NoBuilder == [services |-> EmptyMap, op |-> "none", names |-> <<>>, opts |-> "",
              before |-> EmptyMap, has |-> {}, panicked |-> FALSE,
              m |-> EmptyMap, n |-> 0]

\* CallMain has not been entered.
NoMain == [at |-> "none", exitCode |-> 0, log |-> <<>>, started |-> "-",
           tests |-> "-", code |-> 0]

\* diffMaps has not been called.
NoDiff == [map1 |-> EmptyMap, map2 |-> EmptyMap, at |-> "none",
           onlyInMap1 |-> EmptyMap, onlyInMap2 |-> EmptyMap,
           differentValues |-> EmptyMap]

\* WaitAppMigration has not been called.
NoWait == [Cycles |-> 0, ExpectedVersion |-> 0, at |-> "none", attempts |-> <<>>,
           sleeps |-> 0, ret |-> "-"]

\* A PatternDetector nothing was written to.
NoDetector == [stream |-> <<>>, written |-> <<>>, buf |-> <<>>, count |-> 0,
               chunks |-> 0]

\* A process in which no ExecutorBuilder was built.
NoExecutors == [environ |-> EmptyMap, built |-> <<>>]

\* No Flow was made.
NoFlow ==
  [mocks |-> [grpc |-> FALSE, http |-> FALSE], parser |-> FALSE,
   listener |-> [grpc |-> "none", http |-> "none"],
   pending |-> [grpc |-> 0, http |-> 0], serving |-> [grpc |-> 0, http |-> 0],
   at |-> "none", calls |-> 0, op |-> "-", before |-> "nil", after |-> "nil",
   log |-> <<>>, failed |-> FALSE]

\* Neither a Builder call nor CallMain has been made, and no helper of
\* package tools was used.
Unused ==
  /\ bld = NoBuilder
  /\ main = NoMain
  /\ dm = NoDiff
  /\ wm = NoWait
  /\ pd = NoDetector
  /\ xb = NoExecutors
  /\ fl = NoFlow

Init ==
  /\ config \in ServicesMaps
  /\ mconfig \in ManagerConfigs
  /\ registry \in Registries(config)
  /\ ManagerIdle
  /\ NewRegistry
  /\ NoThreads
  /\ Unused

\* ---------------------------------------------------------------- calls
static == <<config, mconfig, registry, regvars, thrvars, extvars, toolvars>>

BeginCall(op, arg) ==
  /\ pc = "idle"
  /\ ops < MaxOps
  /\ ops' = ops + 1
  /\ UNCHANGED faults
  /\ hist' = [NoHist EXCEPT !.op = op,
                            !.arg = arg,
                            !.before = {running[n].Container : n \in DOMAIN running},
                            !.was = running]
  /\ listed' = NotListed

Return(err) ==
  /\ pc' = Head(stack)
  /\ stack' = Tail(stack)
  /\ rv' = err

\* Terminate is invoked on container c and succeeds iff ok.
Terminate(c, ok, h) ==
  /\ containers' = [containers EXCEPT ![c].calls = @ + 1,
                                      ![c].terminated = @ \/ ok]
  /\ hist' = [h EXCEPT !.termCalls =
                 MapPut(@, c, IF c \in DOMAIN @ THEN @[c] + 1 ELSE 1)]

\* ---------------------------------------------------------------- Start
\* Mutant: the Enabled flag is not looked at.
groupByPriority_all(cfg) ==
  [p \in {cfg[n].Priority : n \in DOMAIN cfg} |->
     [n \in {x \in DOMAIN cfg : cfg[x].Priority = p} |-> cfg[n]]]

groupByPriority(cfg) ==
  LET enabled == {n \in DOMAIN cfg : cfg[n].Enabled}
  IN [p \in {cfg[n].Priority : n \in enabled} |->
        [n \in {x \in enabled : cfg[x].Priority = p} |-> cfg[n]]]

\* Mutant: the priorities are ranged over in descending order.
getSortedPriorities_descending(g) ==
  LET s == SortInts(CHOOSE q \in PermSeqs(DOMAIN g) : TRUE)
  IN [i \in 1..Len(s) |-> s[Len(s) + 1 - i]]

getSortedPriorities(g) ==
  SortInts(CHOOSE s \in PermSeqs(DOMAIN g) : TRUE)

\* Entry of Manager.Start on a manager whose configuration is cfg.
StartEnter(cfg, cont) ==
  /\ groups' = groupByPriority(cfg)
  /\ prios' = getSortedPriorities(groupByPriority(cfg))
  /\ startErr' = NoErr
  /\ pc' = "Start.loop"
  /\ stack' = <<cont>> \o stack

CallStart ==
  /\ BeginCall("Start", "")
  /\ StartEnter(config, "idle")
  /\ UNCHANGED <<static, running, tempManager, renvs, self, rv, eg, envs, seg, containers>>

\* One iteration of the loop over the sorted priorities: enter startGroup,
\* or return nil when every group has been started.
StartLoop ==
  /\ pc = "Start.loop"
  /\ IF prios = <<>>
     THEN /\ Return(NoErr)
          /\ groups' = EmptyMap
          /\ UNCHANGED <<eg, prios>>
     ELSE /\ eg' = [NoGroup EXCEPT !.pending = DOMAIN groups[Head(prios)]]
          /\ pc' = "startGroup"
          /\ UNCHANGED <<stack, rv, groups, prios>>
  /\ UNCHANGED <<static, running, tempManager, renvs, self, startErr, envs, seg,
                 containers, ops, faults, hist, listed>>

\* A goroutine entering startService: at the dependency loop, or past it
\* when there is nothing to range over.
NewUnit(cfg) ==
  [pc |-> IF cfg.Dependencies = <<>> THEN "run" ELSE "deps",
   i |-> 1, cfg |-> cfg, container |-> NoContainer, err |-> NoErr]

\* Mutant: eg.Go without SetLimit.
GroupGo_unlimited(n) ==
  /\ pc = "startGroup"
  /\ n \in eg.pending
  /\ eg' = [eg EXCEPT !.pending = @ \ {n},
                      !.units = MapPut(@, n, NewUnit(groups[Head(prios)][n])),
                      !.active = @ + 1]
  /\ hist' = [hist EXCEPT !.attempted = @ \cup {n}]
  /\ UNCHANGED <<static, running, tempManager, renvs, self, pc, stack, rv, groups, prios,
                 startErr, envs, seg, containers, ops, faults, listed>>

\* eg.Go: blocks while MaxParallel goroutines are active, then starts the
\* goroutine running startService(name, cfg); the map is ranged in any order.
GroupGo(n) ==
  /\ pc = "startGroup"
  /\ n \in eg.pending
  /\ mconfig.MaxParallel < 0 \/ eg.active < mconfig.MaxParallel
  /\ eg' = [eg EXCEPT !.pending = @ \ {n},
                      !.units = MapPut(@, n, NewUnit(groups[Head(prios)][n])),
                      !.active = @ + 1]
  /\ hist' = [hist EXCEPT !.attempted = @ \cup {n}]
  /\ UNCHANGED <<static, running, tempManager, renvs, self, pc, stack, rv, groups, prios,
                 startErr, envs, seg, containers, ops, faults, listed>>

\* Goroutine n (of startGroup, or the caller of Restart) is at position at
\* of startService.
AtUnit(n, at) ==
  /\ pc \in {"startGroup", "Restart.start"}
  /\ n \in DOMAIN eg.units
  /\ eg.units[n].pc = at

\* startService returns err in goroutine n; the errgroup keeps the first error.
FinishUnit(n, err, h) ==
  /\ eg' = [eg EXCEPT !.units[n].pc = "done",
                      !.units[n].err = err,
                      !.active = @ - 1,
                      !.err = IF @ = NoErr THEN err ELSE @]
  /\ hist' = [h EXCEPT !.uerr = MapPut(@, n, err),
                       !.first = IF @ = NoErr THEN err ELSE @]

\* Mutant: the check is made against the running set as it was when the call began.
IsRunning_snapshot(name) == \E c \in hist.before : c.svc = name

\* Mutant: every dependency is taken to be running.
IsRunning_always(name) == name \in Names

\* Manager.IsRunning on the manager that executes.
IsRunning(name) == name \in DOMAIN SelfRunning

\* Whether, by the record of the current call, a container of service d was
\* in the executing manager's running set: stored during the call, or there
\* when the call began and not deleted since.
Present(d) ==
  \/ \E c \in hist.stored : c.svc = d
  \/ self = "m" /\ d \notin hist.gone /\ \E c \in hist.before : c.svc = d

\* Mutant: a dependency that is not running does not end startService.
UnitCheckDep_continues(n) ==
  /\ AtUnit(n, "deps")
  /\ LET u == eg.units[n]
         dep == u.cfg.Dependencies[u.i]
     IN /\ eg' = [eg EXCEPT !.units[n].i = @ + 1,
                            !.units[n].pc = IF u.i = Len(u.cfg.Dependencies)
                                            THEN "run" ELSE "deps"]
        /\ hist' = [hist EXCEPT !.checks = @ \cup
                      {[svc |-> n, dep |-> dep, ok |-> IsRunning(dep),
                        seen |-> Present(dep)]}]
  /\ UNCHANGED <<static, running, tempManager, renvs, self, pc, stack, rv, groups, prios,
                 startErr, envs, seg, containers, ops, faults, listed>>

\* One iteration of the dependency loop: IsRunning(dep) on the live running set.
UnitCheckDep(n) ==
  /\ AtUnit(n, "deps")
  /\ LET u == eg.units[n]
         dep == u.cfg.Dependencies[u.i]
         h == [hist EXCEPT !.checks = @ \cup
                 {[svc |-> n, dep |-> dep, ok |-> IsRunning(dep), seen |-> Present(dep)]}]
     IN IF IsRunning(dep)
        THEN /\ eg' = [eg EXCEPT !.units[n].i = @ + 1,
                                 !.units[n].pc = IF u.i = Len(u.cfg.Dependencies)
                                                 THEN "run" ELSE "deps"]
             /\ hist' = h
        ELSE FinishUnit(n, ErrDependencyNotMet(n, dep), h)
  /\ UNCHANGED <<static, running, tempManager, renvs, self, pc, stack, rv, groups, prios,
                 startErr, envs, seg, containers, ops, faults, listed>>

\* m.registry.Get(name) fails with ErrServiceNotFound.
UnitNotFound(n) ==
  /\ AtUnit(n, "run")
  /\ n \notin registry
  /\ FinishUnit(n, ErrServiceNotFound(n), hist)
  /\ UNCHANGED <<static, running, tempManager, renvs, self, pc, stack, rv, groups, prios,
                 startErr, envs, seg, containers, ops, faults, listed>>

\* m.registry.Get(name) finds the runner; runner.Run(ctx, cfg.Opts...)
\* returns a fresh container or an error.
UnitRun(n, ok) ==
  /\ AtUnit(n, "run")
  /\ n \in registry
  /\ ok \in Outcomes
  /\ Fault(ok)
  /\ LET h == [hist EXCEPT !.runCalls[n] = @ + 1]
     IN IF ok
        THEN /\ eg' = [eg EXCEPT !.units[n].container = NewContainer(n),
                                 !.units[n].pc = IF eg.units[n].cfg.HealthCheck
                                                 THEN "health" ELSE "store"]
             /\ containers' = MapPut(containers, NewContainer(n),
                                      [calls |-> 0, terminated |-> FALSE,
                                       unhealthy |-> FALSE])
             /\ hist' = h
        ELSE /\ FinishUnit(n, ErrServiceStartFailed(n, "run"), h)
             /\ UNCHANGED containers
  /\ UNCHANGED <<static, running, tempManager, renvs, self, pc, stack, rv, groups, prios,
                 startErr, envs, seg, ops, listed>>

\* Mutant: the result of the health check is ignored.
UnitHealth_ignored(n, ok) ==
  /\ AtUnit(n, "health")
  /\ ok \in Outcomes
  /\ Fault(ok)
  /\ eg' = [eg EXCEPT !.units[n].pc = "store"]
  /\ hist' = [hist EXCEPT !.hcCalls[n] = @ + 1]
  /\ containers' = [containers EXCEPT ![eg.units[n].container].unhealthy = ~ok]
  /\ UNCHANGED <<static, running, tempManager, renvs, self, pc, stack, rv, groups, prios,
                 startErr, envs, seg, ops, listed>>

\* cfg.HealthCheck.Check(ctx, container)
UnitHealth(n, ok) ==
  /\ AtUnit(n, "health")
  /\ ok \in Outcomes
  /\ Fault(ok)
  /\ eg' = [eg EXCEPT !.units[n].pc = IF ok THEN "store" ELSE "hcterm"]
  /\ hist' = [hist EXCEPT !.hcCalls[n] = @ + 1]
  /\ containers' = [containers EXCEPT ![eg.units[n].container].unhealthy = ~ok]
  /\ UNCHANGED <<static, running, tempManager, renvs, self, pc, stack, rv, groups, prios,
                 startErr, envs, seg, ops, listed>>

\* Health check failed: Terminate the fresh container, ignore its error and
\* return ErrHealthCheckFailed.
UnitHealthTerminate(n, ok) ==
  /\ AtUnit(n, "hcterm")
  /\ ok \in Outcomes
  /\ Fault(ok)
  /\ \E h \in {[hist EXCEPT !.termCalls =
                   MapPut(@, eg.units[n].container,
                          IF eg.units[n].container \in DOMAIN @
                          THEN @[eg.units[n].container] + 1 ELSE 1)]} :
       /\ containers' = [containers EXCEPT ![eg.units[n].container].calls = @ + 1,
                                           ![eg.units[n].container].terminated = @ \/ ok]
       /\ FinishUnit(n, ErrHealthCheckFailed(n, "health"), h)
  /\ UNCHANGED <<static, running, tempManager, renvs, self, pc, stack, rv, groups, prios,
                 startErr, envs, seg, ops, listed>>

ServiceEnv(name, container, cfg) ==
  [Name |-> name, Container |-> container, Config |-> cfg]

\* m.running[name] = &ServiceEnv{...} under the lock; startService returns nil.
UnitStore(n) ==
  /\ AtUnit(n, "store")
  /\ LET u == eg.units[n]
     IN /\ SetSelfRunning(MapPut(SelfRunning, n, ServiceEnv(n, u.container, u.cfg)))
        /\ FinishUnit(n, NoErr, [hist EXCEPT !.stored = @ \cup {u.container}])
  /\ UNCHANGED <<static, renvs, self, pc, stack, rv, groups, prios, startErr, envs, seg,
                 containers, ops, faults, listed>>

\* Snapshots of the running set r as Stop sorts them: by Priority descending
\* (sort.Slice over a slice filled in map order).
SortedSnapshots(r) ==
  {s \in PermSeqs(Range(r)) :
     \A i, j \in 1..Len(s) : i < j => s[i].Config.Priority >= s[j].Config.Priority}

\* Mutant: Stop with nothing running fails.
StopEnter_emptyFails(r, cont) ==
  IF DOMAIN r = {}
  THEN /\ pc' = cont
       /\ rv' = ErrServiceNotRunning("")
       /\ UNCHANGED <<stack, envs, seg>>
  ELSE /\ \E s \in SortedSnapshots(r) : envs' = s
       /\ seg' = NoStopGroup
       /\ pc' = "Stop"
       /\ stack' = <<cont>> \o stack
       /\ UNCHANGED rv

\* Entry of Manager.Stop on a manager whose running set is r.
StopEnter(r, cont) ==
  IF DOMAIN r = {}
  THEN /\ pc' = cont
       /\ rv' = NoErr
       /\ UNCHANGED <<stack, envs, seg>>
  ELSE /\ \E s \in SortedSnapshots(r) : envs' = s
       /\ seg' = NoStopGroup
       /\ pc' = "Stop"
       /\ stack' = <<cont>> \o stack
       /\ UNCHANGED rv

\* Mutant: the error of startGroup is ignored and the next group is started.
GroupWait_ignoresError ==
  /\ pc = "startGroup"
  /\ eg.pending = {}
  /\ \A n \in DOMAIN eg.units : eg.units[n].pc = "done"
  /\ eg' = NoGroup
  /\ prios' = Tail(prios)
  /\ pc' = "Start.loop"
  /\ UNCHANGED <<stack, rv, startErr, envs, seg, groups>>
  /\ UNCHANGED <<static, running, tempManager, renvs, self, containers, ops, faults,
                 hist, listed>>

\* Mutant: Start cleans up whatever the policy says.
StopOnError_always == TRUE

\* Start: if m.mconfig.StopOnError
StopOnError == mconfig.StopOnError

\* eg.Wait() in startGroup, and what Start does with its result.
GroupWait ==
  /\ pc = "startGroup"
  /\ eg.pending = {}
  /\ \A n \in DOMAIN eg.units : eg.units[n].pc = "done"
  /\ eg' = NoGroup
  /\ IF eg.err = NoErr
     THEN /\ prios' = Tail(prios)
          /\ pc' = "Start.loop"
          /\ UNCHANGED <<stack, rv, startErr, envs, seg, groups>>
     ELSE IF StopOnError
     THEN /\ startErr' = eg.err
          /\ StopEnter(SelfRunning, "Start.cleanup")
          /\ UNCHANGED <<prios, groups>>
     ELSE /\ Return(eg.err)
          /\ prios' = <<>>
          /\ groups' = EmptyMap
          /\ UNCHANGED <<startErr, envs, seg>>
  /\ UNCHANGED <<static, running, tempManager, renvs, self, containers, ops, faults,
                 hist, listed>>

\* Mutant: an error of the cleanup Stop replaces err.
StartCleanupDone_stopErr ==
  /\ pc = "Start.cleanup"
  /\ Return(IF rv # NoErr THEN rv ELSE startErr)
  /\ startErr' = NoErr
  /\ prios' = <<>>
  /\ groups' = EmptyMap
  /\ UNCHANGED <<static, running, tempManager, renvs, self, eg, envs, seg, containers,
                 ops, faults, hist, listed>>

\* The cleanup Stop returned: its error is dropped, Start returns err.
StartCleanupDone ==
  /\ pc = "Start.cleanup"
  /\ Return(startErr)
  /\ startErr' = NoErr
  /\ prios' = <<>>
  /\ groups' = EmptyMap
  /\ UNCHANGED <<static, running, tempManager, renvs, self, eg, envs, seg, containers,
                 ops, faults, hist, listed>>

\* ---------------------------------------------------------------- Stop
CallStop ==
  /\ BeginCall("Stop", "")
  /\ StopEnter(running, "idle")
  /\ UNCHANGED <<static, running, tempManager, renvs, self, groups, prios, startErr, eg,
                 containers>>

\* Goroutine i (of Stop, or the caller of Restart) is at position at of
\* stopService.
AtStopUnit(i, at) ==
  /\ pc \in {"Stop", "Restart.stop"}
  /\ i \in DOMAIN seg.units
  /\ seg.units[i].pc = at

\* A goroutine entering stopService.  ctx is the state of the context it
\* passed to Terminate when Terminate returned: the context of an errgroup
\* made by WithContext is cancelled when the first goroutine returns an error.
StopUnit == [pc |-> "terminate", err |-> NoErr, ctx |-> "live"]

\* The context the goroutines of the group share.
GroupCtx == IF seg.err # NoErr THEN "cancelled" ELSE "live"

\* Mutant: after a failure the remaining goroutines return without calling
\* stopService.
StopGo_failFast ==
  /\ pc = "Stop"
  /\ seg.next <= Len(envs)
  /\ seg' = [seg EXCEPT !.units = MapPut(@, seg.next,
                                         IF seg.err # NoErr
                                         THEN [StopUnit EXCEPT !.pc = "done"]
                                         ELSE StopUnit),
                        !.next = @ + 1]
  /\ UNCHANGED <<static, running, tempManager, renvs, self, pc, stack, rv, groups, prios,
                 startErr, eg, envs, containers, ops, faults, hist, listed>>

\* eg.Go in Stop: no limit is set, the goroutines are started in slice order.
StopGo ==
  /\ pc = "Stop"
  /\ seg.next <= Len(envs)
  /\ seg' = [seg EXCEPT !.units = MapPut(@, seg.next, StopUnit), !.next = @ + 1]
  /\ UNCHANGED <<static, running, tempManager, renvs, self, pc, stack, rv, groups, prios,
                 startErr, eg, envs, containers, ops, faults, hist, listed>>

\* Mutant: the record is deleted whatever Terminate returned.
StopTerminate_deletes(i, ok) ==
  /\ AtStopUnit(i, "terminate")
  /\ ok \in Outcomes
  /\ Fault(ok)
  /\ LET err == IF ok THEN NoErr ELSE ErrServiceStopFailed(envs[i].Name, "terminate")
     IN /\ seg' = [seg EXCEPT !.units[i].pc = "delete",
                              !.units[i].err = err,
                              !.units[i].ctx = IF pc = "Stop" THEN GroupCtx ELSE "live",
                              !.err = IF @ = NoErr THEN err ELSE @]
        /\ Terminate(envs[i].Container, ok,
                     [hist EXCEPT !.stopErrs = IF ok THEN @ ELSE @ \cup {err}])
  /\ UNCHANGED <<static, running, tempManager, renvs, self, pc, stack, rv, groups, prios,
                 startErr, eg, envs, ops, listed>>

\* stopService: env.Container.Terminate(ctx)
StopTerminate(i, ok) ==
  /\ AtStopUnit(i, "terminate")
  /\ ok \in Outcomes
  /\ Fault(ok)
  /\ LET err == IF ok THEN NoErr ELSE ErrServiceStopFailed(envs[i].Name, "terminate")
     IN /\ seg' = [seg EXCEPT !.units[i].pc = IF ok THEN "delete" ELSE "done",
                              !.units[i].err = err,
                              !.units[i].ctx = IF pc = "Stop" THEN GroupCtx ELSE "live",
                              !.err = IF @ = NoErr THEN err ELSE @]
        /\ Terminate(envs[i].Container, ok,
                     [hist EXCEPT !.stopErrs = IF ok THEN @ ELSE @ \cup {err}])
  /\ UNCHANGED <<static, running, tempManager, renvs, self, pc, stack, rv, groups, prios,
                 startErr, eg, envs, ops, listed>>

\* Mutant: the record is not deleted.
StopDelete_keeps(i) ==
  /\ AtStopUnit(i, "delete")
  /\ seg' = [seg EXCEPT !.units[i].pc = "done"]
  /\ UNCHANGED <<static, running, tempManager, renvs, self, pc, stack, rv, groups, prios,
                 startErr, eg, envs, containers, ops, faults, hist, listed>>

\* stopService: delete(m.running, env.Name) under the lock
StopDelete(i) ==
  /\ AtStopUnit(i, "delete")
  /\ SetSelfRunning(MapRemove(SelfRunning, envs[i].Name))
  /\ seg' = [seg EXCEPT !.units[i].pc = "done"]
  /\ hist' = [hist EXCEPT !.gone = @ \cup {envs[i].Name}]
  /\ UNCHANGED <<static, renvs, self, pc, stack, rv, groups, prios, startErr, eg, envs,
                 containers, ops, faults, listed>>

\* eg.Wait() in Stop returns the first error.
StopWait ==
  /\ pc = "Stop"
  /\ seg.next > Len(envs)
  /\ \A i \in DOMAIN seg.units : seg.units[i].pc = "done"
  /\ Return(seg.err)
  /\ envs' = <<>>
  /\ seg' = NoStopGroup
  /\ UNCHANGED <<static, running, tempManager, renvs, self, groups, prios, startErr, eg,
                 containers, ops, faults, hist, listed>>

\* ---------------------------------------------------------------- Restart
\* Mutant: Get reports no error for a name that is not running.
Get_alwaysFound(name) ==
  [env |-> IF name \in DOMAIN running THEN running[name] ELSE NilEnv, err |-> NoErr]

\* Manager.Get
Get(name) ==
  IF name \in DOMAIN running
  THEN [env |-> running[name], err |-> NoErr]
  ELSE [env |-> ServiceEnv(name, NoContainer, Config(FALSE, 0, <<>>, FALSE)),
        err |-> ErrServiceNotRunning(name)]

\* Restart(serviceName): Get, then stopService(env) by the caller itself.
CallRestart(name) ==
  /\ BeginCall("Restart", name)
  /\ IF Get(name).err # NoErr
     THEN /\ pc' = "idle"
          /\ rv' = Get(name).err
          /\ UNCHANGED <<envs, seg>>
     ELSE /\ envs' = <<Get(name).env>>
          /\ seg' = [NoStopGroup EXCEPT !.units = MapPut(@, 1, StopUnit), !.next = 2]
          /\ pc' = "Restart.stop"
          /\ UNCHANGED rv
  /\ UNCHANGED <<static, running, tempManager, renvs, self, stack, groups, prios,
                 startErr, eg, containers>>

\* Mutant: the error of stopService is ignored.
RestartStopped_ignoresStopErr ==
  /\ pc = "Restart.stop"
  /\ seg.units[1].pc = "done"
  /\ seg' = NoStopGroup
  /\ pc' = "Restart.start"
  /\ eg' = [NoGroup EXCEPT !.units = MapPut(@, envs[1].Name,
                                            NewUnit(envs[1].Config)),
                           !.active = 1]
  /\ hist' = [hist EXCEPT !.attempted = @ \cup {envs[1].Name}]
  /\ UNCHANGED <<rv, envs>>
  /\ UNCHANGED <<static, running, tempManager, renvs, self, stack, groups, prios,
                 startErr, containers, ops, faults, listed>>

\* stopService returned: return its error, or go on to
\* startService(serviceName, &env.Config).
RestartStopped ==
  /\ pc = "Restart.stop"
  /\ seg.units[1].pc = "done"
  /\ seg' = NoStopGroup
  /\ IF seg.units[1].err # NoErr
     THEN /\ pc' = "idle"
          /\ rv' = seg.units[1].err
          /\ envs' = <<>>
          /\ UNCHANGED <<eg, hist>>
     ELSE /\ pc' = "Restart.start"
          /\ eg' = [NoGroup EXCEPT !.units = MapPut(@, envs[1].Name,
                                                    NewUnit(envs[1].Config)),
                                   !.active = 1]
          /\ hist' = [hist EXCEPT !.attempted = @ \cup {envs[1].Name}]
          /\ UNCHANGED <<rv, envs>>
  /\ UNCHANGED <<static, running, tempManager, renvs, self, stack, groups, prios,
                 startErr, containers, ops, faults, listed>>

\* Mutant: a failed start puts the old record back.
RestartStarted_restores ==
  /\ pc = "Restart.start"
  /\ eg.units[envs[1].Name].pc = "done"
  /\ pc' = "idle"
  /\ rv' = eg.units[envs[1].Name].err
  /\ eg' = NoGroup
  /\ envs' = <<>>
  /\ running' = IF eg.units[envs[1].Name].err # NoErr
                THEN MapPut(running, envs[1].Name, envs[1])
                ELSE running
  /\ UNCHANGED <<static, tempManager, renvs, self, stack, groups, prios,
                 startErr, seg, containers, ops, faults, hist, listed>>

\* startService returned: Restart returns its result.
RestartStarted ==
  /\ pc = "Restart.start"
  /\ eg.units[envs[1].Name].pc = "done"
  /\ pc' = "idle"
  /\ rv' = eg.units[envs[1].Name].err
  /\ eg' = NoGroup
  /\ envs' = <<>>
  /\ UNCHANGED <<static, running, tempManager, renvs, self, stack, groups, prios,
                 startErr, seg, containers, ops, faults, hist, listed>>

\* ---------------------------------------------------------------- RestartAll
\* Mutant: the temporary manager is given the declared configuration.
NewManager_declared(snapshot) == [config |-> config, running |-> EmptyMap]

\* NewManager(configs, m.mconfig) with configs rebuilt from the snapshot.
NewManager(snapshot) ==
  [config |-> [n \in {e.Name : e \in snapshot} |->
                 (CHOOSE e \in snapshot : e.Name = n).Config],
   running |-> EmptyMap]

\* RestartAll: snapshot the running set; nothing to do when it is empty,
\* otherwise m.Stop(ctx).
CallRestartAll ==
  /\ BeginCall("RestartAll", "")
  /\ IF DOMAIN running = {}
     THEN UNCHANGED renvs
     ELSE renvs' = Range(running)
  /\ StopEnter(running, IF DOMAIN running = {} THEN "idle" ELSE "RestartAll.stopped")
  /\ UNCHANGED <<static, running, tempManager, self, groups, prios, startErr, eg,
                 containers>>

\* Stop returned: return its error, or build the temporary manager over the
\* same registry and call its Start.
RestartAllStopped ==
  /\ pc = "RestartAll.stopped"
  /\ IF rv # NoErr
     THEN /\ pc' = "idle"
          /\ renvs' = {}
          /\ UNCHANGED <<tempManager, self, stack, groups, prios, startErr>>
     ELSE /\ tempManager' = NewManager(renvs)
          /\ self' = "temp"
          /\ StartEnter(NewManager(renvs).config, "RestartAll.started")
          /\ UNCHANGED renvs
  /\ UNCHANGED <<static, running, rv, eg, envs, seg, containers, ops, faults, hist, listed>>

\* Mutant: the temporary manager's running map is adopted whatever its
\* Start returned.
RestartAllStarted_adopts ==
  /\ pc = "RestartAll.started"
  /\ pc' = "idle"
  /\ self' = "m"
  /\ tempManager' = NoManager
  /\ renvs' = {}
  /\ running' = tempManager.running
  /\ UNCHANGED <<static, stack, rv, groups, prios, startErr, eg, envs, seg,
                 containers, ops, faults, hist, listed>>

\* tempManager.Start returned: return its error, or adopt the temporary
\* manager's running map.
RestartAllStarted ==
  /\ pc = "RestartAll.started"
  /\ pc' = "idle"
  /\ self' = "m"
  /\ tempManager' = NoManager
  /\ renvs' = {}
  /\ running' = IF rv # NoErr THEN running ELSE tempManager.running
  /\ UNCHANGED <<static, stack, rv, groups, prios, startErr, eg, envs, seg,
                 containers, ops, faults, hist, listed>>

\* ---------------------------------------------------------------- reads
\* Mutant: the names are returned in map order.
ListRunning_unsorted(order) == order

\* ListRunning: the keys in map order, then sort.Strings.
ListRunning(order) == SortStrings(order)

CallListRunning ==
  /\ pc = "idle"
  /\ listed = NotListed
  /\ \E order \in PermSeqs(DOMAIN running) : listed' = ListRunning(order)
  /\ UNCHANGED <<static, running, tempManager, renvs, self, pc, stack, rv, groups, prios,
                 startErr, eg, envs, seg, containers, ops, faults, hist>>

Next ==
  \/ CallStart
  \/ StartLoop
  \/ \E n \in Names : GroupGo(n)
  \/ \E n \in Names : UnitCheckDep(n)
  \/ \E n \in Names : UnitNotFound(n)
  \/ \E n \in Names, ok \in BOOLEAN : UnitRun(n, ok)
  \/ \E n \in Names, ok \in BOOLEAN : UnitHealth(n, ok)
  \/ \E n \in Names, ok \in BOOLEAN : UnitHealthTerminate(n, ok)
  \/ \E n \in Names : UnitStore(n)
  \/ GroupWait
  \/ StartCleanupDone
  \/ CallStop
  \/ StopGo
  \/ \E i \in 1..Cardinality(Names), ok \in BOOLEAN : StopTerminate(i, ok)
  \/ \E i \in 1..Cardinality(Names) : StopDelete(i)
  \/ StopWait
  \/ \E name \in Names : CallRestart(name)
  \/ RestartStopped
  \/ RestartStarted
  \/ CallRestartAll
  \/ RestartAllStopped
  \/ RestartAllStarted
  \/ CallListRunning

Spec == Init /\ [][Next]_vars

\* The Manager with goroutines that keep being scheduled and external calls
\* (runner, health check, Terminate) that return: a step that stays possible
\* is eventually taken.
FairSpec == Spec /\ WF_vars(Next)

\* ---------------------------------------------------------------- Registry
\* A goroutine enters a Registry method.
BeginRegistryCall(g, op, name, runner, at) ==
  /\ gs[g].pc = "idle"
  /\ calls < MaxCalls
  /\ calls' = calls + 1
  /\ gs' = [gs EXCEPT ![g] = [pc |-> at, op |-> op, name |-> name,
                               runner |-> runner, ret |-> NoRet]]
  /\ UNCHANGED <<offRegistry, runners, mu, live, wins, removed>>

CallRegister(g, name, runner) == BeginRegistryCall(g, "Register", name, runner, "Lock")

CallUnregister(g, name) == BeginRegistryCall(g, "Unregister", name, NilRunner, "Lock")

CallGet(g, name) == BeginRegistryCall(g, "Get", name, NilRunner, "RLock")

CallHas(g, name) == BeginRegistryCall(g, "Has", name, NilRunner, "RLock")

CallList(g) == BeginRegistryCall(g, "List", "", NilRunner, "RLock")

\* Mutant: Lock never waits.
CanLock_unguarded == TRUE

\* sync.RWMutex: Lock waits until no writer and no reader holds the mutex.
CanLock == mu.w = "" /\ mu.r = {}

\* sync.RWMutex: RLock waits while a writer holds the mutex.
CanRLock == mu.w = ""

\* r.mu.Lock() of Register and Unregister.
Lock(g) ==
  /\ gs[g].pc = "Lock"
  /\ CanLock
  /\ mu' = [mu EXCEPT !.w = g]
  /\ gs' = [gs EXCEPT ![g].pc = gs[g].op]
  /\ UNCHANGED <<offRegistry, runners, calls, live, wins, removed>>

\* r.mu.RLock() of Get, List and Has.
RLock(g) ==
  /\ gs[g].pc = "RLock"
  /\ CanRLock
  /\ mu' = [mu EXCEPT !.r = @ \cup {g}]
  /\ gs' = [gs EXCEPT ![g].pc = gs[g].op]
  /\ UNCHANGED <<offRegistry, runners, calls, live, wins, removed>>

\* Mutant: a duplicate registration returns the error and replaces the runner.
RegisterCheck_overwrites(g) ==
  /\ gs[g].pc = "Register"
  /\ IF gs[g].name \in DOMAIN runners
     THEN /\ gs' = [gs EXCEPT ![g].pc = "Unlock",
                              ![g].ret.err = ErrServiceAlreadyRegistered(gs[g].name)]
          /\ runners' = MapPut(runners, gs[g].name, gs[g].runner)
     ELSE /\ gs' = [gs EXCEPT ![g].pc = "Register.insert"]
          /\ UNCHANGED runners
  /\ UNCHANGED <<offRegistry, mu, calls, live, wins, removed>>

\* Register: if _, exists := r.runners[name]; exists { return error }
RegisterCheck(g) ==
  /\ gs[g].pc = "Register"
  /\ IF gs[g].name \in DOMAIN runners
     THEN gs' = [gs EXCEPT ![g].pc = "Unlock",
                           ![g].ret.err = ErrServiceAlreadyRegistered(gs[g].name)]
     ELSE gs' = [gs EXCEPT ![g].pc = "Register.insert"]
  /\ UNCHANGED <<offRegistry, runners, mu, calls, live, wins, removed>>

\* Register: r.runners[name] = runner; return nil
RegisterInsert(g) ==
  /\ gs[g].pc = "Register.insert"
  /\ runners' = MapPut(runners, gs[g].name, gs[g].runner)
  /\ gs' = [gs EXCEPT ![g].pc = "Unlock", ![g].ret.err = NoErr]
  /\ UNCHANGED <<offRegistry, mu, calls, live, wins, removed>>

\* Mutant: Unregister deletes nothing.
UnregisterDelete_keeps(g) ==
  /\ gs[g].pc = "Unregister"
  /\ gs' = [gs EXCEPT ![g].pc = "Unlock"]
  /\ UNCHANGED <<offRegistry, runners, mu, calls, live, wins, removed>>

\* Unregister: delete(r.runners, name)
UnregisterDelete(g) ==
  /\ gs[g].pc = "Unregister"
  /\ runners' = MapRemove(runners, gs[g].name)
  /\ gs' = [gs EXCEPT ![g].pc = "Unlock"]
  /\ UNCHANGED <<offRegistry, mu, calls, live, wins, removed>>

\* The deferred r.mu.Unlock(): Register or Unregister returns.
Unlock(g) ==
  /\ gs[g].pc = "Unlock"
  /\ mu' = [mu EXCEPT !.w = ""]
  /\ gs' = [gs EXCEPT ![g] = IdleGoroutine]
  /\ IF gs[g].op = "Unregister"
     THEN /\ live' = MapRemove(live, gs[g].name)
          /\ removed' = [removed EXCEPT ![gs[g].name] =
                           IF gs[g].name \in DOMAIN live THEN @ + 1 ELSE @]
          /\ UNCHANGED wins
     ELSE IF gs[g].ret.err = NoErr
     THEN /\ live' = MapPut(live, gs[g].name, gs[g].runner)
          /\ wins' = [wins EXCEPT ![gs[g].name] = @ + 1]
          /\ UNCHANGED removed
     ELSE UNCHANGED <<live, wins, removed>>
  /\ UNCHANGED <<offRegistry, runners, calls>>

\* Get: runner, ok := r.runners[name]
GetRead(g) ==
  /\ gs[g].pc = "Get"
  /\ gs' = [gs EXCEPT ![g].pc = "RUnlock",
                       ![g].ret.ok = gs[g].name \in DOMAIN runners,
                       ![g].ret.runner = IF gs[g].name \in DOMAIN runners
                                         THEN runners[gs[g].name]
                                         ELSE NilRunner]
  /\ UNCHANGED <<offRegistry, runners, mu, calls, live, wins, removed>>

\* Has: _, ok := r.runners[name]
HasRead(g) ==
  /\ gs[g].pc = "Has"
  /\ gs' = [gs EXCEPT ![g].pc = "RUnlock",
                       ![g].ret.ok = gs[g].name \in DOMAIN runners]
  /\ UNCHANGED <<offRegistry, runners, mu, calls, live, wins, removed>>

\* List: one iteration of "for name := range r.runners", in map order, or
\* the end of the loop.
ListRange(g) ==
  /\ gs[g].pc = "List"
  /\ LET rest == DOMAIN runners \ Range(gs[g].ret.names) IN
       IF rest = {}
       THEN gs' = [gs EXCEPT ![g].pc = "RUnlock"]
       ELSE \E n \in rest : gs' = [gs EXCEPT ![g].ret.names = Append(@, n)]
  /\ UNCHANGED <<offRegistry, runners, mu, calls, live, wins, removed>>

\* The deferred r.mu.RUnlock(): Get, Has or List returns.
RUnlock(g) ==
  /\ gs[g].pc = "RUnlock"
  /\ mu' = [mu EXCEPT !.r = @ \ {g}]
  /\ gs' = [gs EXCEPT ![g] = IdleGoroutine]
  /\ UNCHANGED <<offRegistry, runners, calls, live, wins, removed>>

\* A Registry shared by goroutines; no Manager is built on it.
InitRegistry ==
  /\ NewRegistry
  /\ config = EmptyMap
  /\ mconfig = DefaultManagerConfig
  /\ registry = {}
  /\ ManagerIdle
  /\ NoThreads
  /\ Unused

NextRegistry ==
  \/ \E g \in Goroutines, name \in RegistryNames, runner \in Runners :
       CallRegister(g, name, runner)
  \/ \E g \in Goroutines, name \in RegistryNames : CallUnregister(g, name)
  \/ \E g \in Goroutines, name \in RegistryNames : CallGet(g, name)
  \/ \E g \in Goroutines, name \in RegistryNames : CallHas(g, name)
  \/ \E g \in Goroutines : CallList(g)
  \/ \E g \in Goroutines : Lock(g)
  \/ \E g \in Goroutines : RLock(g)
  \/ \E g \in Goroutines : RegisterCheck(g)
  \/ \E g \in Goroutines : RegisterInsert(g)
  \/ \E g \in Goroutines : UnregisterDelete(g)
  \/ \E g \in Goroutines : Unlock(g)
  \/ \E g \in Goroutines : GetRead(g)
  \/ \E g \in Goroutines : HasRead(g)
  \/ \E g \in Goroutines : ListRange(g)
  \/ \E g \in Goroutines : RUnlock(g)

SpecRegistry == InitRegistry /\ [][NextRegistry]_vars

\* ---------------------------------------------------------------- Manager.mu
\* Goroutines that use one Manager at the same time: the goroutines Start
\* and Stop launch for startService and stopService (and the caller of
\* Restart), and callers of the accessors.  The container calls Run, Check
\* and Terminate take time: a goroutine stays at the call until it returns.

\* What these goroutines leave alone.
offThreads == <<config, mconfig, registry, tempManager, renvs, self, pc, stack, rv,
                groups, prios, startErr, eg, envs, seg, ops, hist, listed, regvars,
                extvars, toolvars>>

\* The name typed_getters.go looks up for GetPostgres, and the dynamic types
\* a container can have.
Postgres == "a"
PsqlEnv == "*psql.Env"
ContainerTypes == {PsqlEnv, "*redis.Env"}

\* The types the runner registered under name n may return.
RunTypes(n) == IF n = Postgres THEN ContainerTypes ELSE {"*redis.Env"}

\* Positions inside runner.Run, HealthCheck.Check and Container.Terminate.
ContainerCalls == {"Run", "Check", "Cleanup", "Terminate"}

\* Positions between the acquisition and the release of m.mu.
MapSections == {"read", "RUnlock", "store", "delete", "Unlock"}

\* A goroutine enters a method of the Manager.
BeginThreadCall(g, op, name, env, at) ==
  /\ ths[g].pc = "idle"
  /\ tcalls < MaxThreadCalls
  /\ tcalls' = tcalls + 1
  /\ ths' = [ths EXCEPT ![g] =
               [IdleThread EXCEPT !.pc = at, !.op = op, !.name = name, !.env = env,
                                  !.during = {h \in Threads \ {g} :
                                                ths[h].pc \in ContainerCalls}]]
  /\ UNCHANGED <<offThreads, running, containers, faults, mmu>>

\* startService(ctx, name, &cfg) as startGroup launches it.
GoStartService(g, n) ==
  /\ n \in EnabledNames(config)
  /\ BeginThreadCall(g, "startService", n, NilEnv,
                     IF config[n].Dependencies = <<>> THEN "lookup" ELSE "RLock")

\* stopService(ctx, env) as Stop and Restart call it, env read from m.running
\* under the read lock (Stop's snapshot, Restart's Get).
GoStopService(g, n) ==
  /\ mmu.w = ""
  /\ n \in DOMAIN running
  /\ BeginThreadCall(g, "stopService", n, running[n], "Terminate")

GoGet(g, n) == BeginThreadCall(g, "Get", n, NilEnv, "RLock")

GoGetContainer(g, n) == BeginThreadCall(g, "GetContainer", n, NilEnv, "RLock")

GoIsRunning(g, n) == BeginThreadCall(g, "IsRunning", n, NilEnv, "RLock")

GoListRunning(g) == BeginThreadCall(g, "ListRunning", "", NilEnv, "RLock")

GoGetPostgres(g) == BeginThreadCall(g, "GetPostgres", Postgres, NilEnv, "RLock")

GoMustGetPostgres(g) == BeginThreadCall(g, "MustGetPostgres", Postgres, NilEnv, "RLock")

\* sync.RWMutex on m.mu.
MuCanLock == mmu.w = "" /\ mmu.r = {}

MuCanRLock == mmu.w = ""

\* m.mu.Lock() of startService and stopService.
MuLock(g) ==
  /\ ths[g].pc = "Lock"
  /\ MuCanLock
  /\ mmu' = [mmu EXCEPT !.w = g]
  /\ ths' = [ths EXCEPT ![g].pc = IF ths[g].op = "startService" THEN "store" ELSE "delete"]
  /\ UNCHANGED <<offThreads, running, containers, faults, tcalls>>

\* m.mu.Unlock(); startService or stopService returns nil.
MuUnlock(g) ==
  /\ ths[g].pc = "Unlock"
  /\ mmu' = [mmu EXCEPT !.w = ""]
  /\ ths' = [ths EXCEPT ![g] = IdleThread]
  /\ UNCHANGED <<offThreads, running, containers, faults, tcalls>>

\* m.mu.RLock() of Get, IsRunning and ListRunning.
MuRLock(g) ==
  /\ ths[g].pc = "RLock"
  /\ MuCanRLock
  /\ mmu' = [mmu EXCEPT !.r = @ \cup {g}]
  /\ ths' = [ths EXCEPT ![g].pc = "read"]
  /\ UNCHANGED <<offThreads, running, containers, faults, tcalls>>

\* The map read made under the read lock: m.running[name] in Get (also on
\* behalf of GetContainer and the typed getters) and IsRunning (also on
\* behalf of startService's dependency loop), the range and sort of
\* ListRunning.
ReadRunning(g) ==
  /\ ths[g].pc = "read"
  /\ LET t == ths[g]
         key == IF t.op = "startService"
                THEN config[t.name].Dependencies[t.i] ELSE t.name
     IN CASE t.op \in {"IsRunning", "startService"} ->
               ths' = [ths EXCEPT ![g].pc = "RUnlock", ![g].ret.ok = IsRunning(key)]
          [] t.op = "ListRunning" ->
               \E order \in PermSeqs(DOMAIN running) :
                 ths' = [ths EXCEPT ![g].pc = "RUnlock",
                                    ![g].ret.names = ListRunning(order)]
          [] OTHER ->
               ths' = [ths EXCEPT ![g].pc = "RUnlock",
                                  ![g].ret.env = Get(key).env,
                                  ![g].ret.err = Get(key).err,
                                  ![g].ret.container =
                                     IF t.op = "Get" THEN NoContainer
                                     ELSE Get(key).env.Container]
  /\ UNCHANGED <<offThreads, running, containers, faults, mmu, tcalls>>

\* m.mu.RUnlock(): the accessor returns; startService goes on with its
\* dependency loop, a typed getter with its type assertion.
MuRUnlock(g) ==
  /\ ths[g].pc = "RUnlock"
  /\ mmu' = [mmu EXCEPT !.r = @ \ {g}]
  /\ LET t == ths[g] IN
       CASE t.op = "startService" ->
              IF ~t.ret.ok
              THEN ths' = [ths EXCEPT ![g] = IdleThread]
              ELSE ths' = [ths EXCEPT ![g].i = @ + 1,
                                      ![g].pc = IF t.i = Len(config[t.name].Dependencies)
                                                THEN "lookup" ELSE "RLock"]
         [] t.op \in {"GetPostgres", "MustGetPostgres"} ->
              ths' = [ths EXCEPT ![g].pc = "assert"]
         [] OTHER -> ths' = [ths EXCEPT ![g] = IdleThread]
  /\ UNCHANGED <<offThreads, running, containers, faults, tcalls>>

\* Goroutine h leaves a container call and goes on as rec.
LeaveCall(h, rec) ==
  ths' = [k \in Threads |->
            IF k = h THEN rec ELSE [ths[k] EXCEPT !.during = @ \ {h}]]

\* Mutant: startService takes m.mu before it calls the runner.
SvcLookup_underLock(g) ==
  /\ ths[g].pc = "lookup"
  /\ MuCanLock
  /\ mmu' = [mmu EXCEPT !.w = g]
  /\ ths' = [ths EXCEPT ![g] = IF ths[g].name \in registry
                                THEN [@ EXCEPT !.pc = "Run"] ELSE IdleThread]
  /\ UNCHANGED <<offThreads, running, containers, faults, tcalls>>

\* startService: m.registry.Get(name), then the call of runner.Run.
SvcLookup(g) ==
  /\ ths[g].pc = "lookup"
  /\ ths' = [ths EXCEPT ![g] = IF ths[g].name \in registry
                                THEN [@ EXCEPT !.pc = "Run"] ELSE IdleThread]
  /\ UNCHANGED <<offThreads, running, containers, faults, mmu, tcalls>>

\* runner.Run returns a container of dynamic type typ, or an error.
SvcRun(g, ok, typ) ==
  /\ ths[g].pc = "Run"
  /\ ok \in Outcomes
  /\ Fault(ok)
  /\ typ \in RunTypes(ths[g].name)
  /\ LET c == NewContainer(ths[g].name) IN
       IF ok
       THEN /\ containers' = MapPut(containers, c,
                                    [calls |-> 0, terminated |-> FALSE,
                                     unhealthy |-> FALSE, type |-> typ])
            /\ LeaveCall(g, [ths[g] EXCEPT !.container = c,
                                           !.pc = IF config[ths[g].name].HealthCheck
                                                  THEN "Check" ELSE "Lock"])
       ELSE /\ typ = PsqlEnv \/ PsqlEnv \notin RunTypes(ths[g].name)
            /\ LeaveCall(g, IdleThread)
            /\ UNCHANGED containers
  /\ UNCHANGED <<offThreads, running, mmu, tcalls>>

\* cfg.HealthCheck.Check returns.
SvcCheck(g, ok) ==
  /\ ths[g].pc = "Check"
  /\ ok \in Outcomes
  /\ Fault(ok)
  /\ containers' = [containers EXCEPT ![ths[g].container].unhealthy = ~ok]
  /\ LeaveCall(g, [ths[g] EXCEPT !.pc = IF ok THEN "Lock" ELSE "Cleanup"])
  /\ UNCHANGED <<offThreads, running, mmu, tcalls>>

\* container.Terminate after a failed health check returns; startService
\* returns ErrHealthCheckFailed.
SvcCleanup(g, ok) ==
  /\ ths[g].pc = "Cleanup"
  /\ ok \in Outcomes
  /\ Fault(ok)
  /\ containers' = [containers EXCEPT ![ths[g].container].calls = @ + 1,
                                      ![ths[g].container].terminated = @ \/ ok]
  /\ LeaveCall(g, IdleThread)
  /\ UNCHANGED <<offThreads, running, mmu, tcalls>>

\* startService: m.running[name] = &ServiceEnv{...}
SvcStore(g) ==
  /\ ths[g].pc = "store"
  /\ running' = MapPut(running, ths[g].name,
                       ServiceEnv(ths[g].name, ths[g].container, config[ths[g].name]))
  /\ ths' = [ths EXCEPT ![g].pc = "Unlock"]
  /\ UNCHANGED <<offThreads, containers, faults, mmu, tcalls>>

\* stopService: env.Container.Terminate returns.
SvcTerminate(g, ok) ==
  /\ ths[g].pc = "Terminate"
  /\ ok \in Outcomes
  /\ Fault(ok)
  /\ containers' = [containers EXCEPT ![ths[g].env.Container].calls = @ + 1,
                                      ![ths[g].env.Container].terminated = @ \/ ok]
  /\ LeaveCall(g, IF ok THEN [ths[g] EXCEPT !.pc = "Lock"] ELSE IdleThread)
  /\ UNCHANGED <<offThreads, running, mmu, tcalls>>

\* stopService: delete(m.running, env.Name)
SvcDelete(g) ==
  /\ ths[g].pc = "delete"
  /\ running' = MapRemove(running, ths[g].env.Name)
  /\ ths' = [ths EXCEPT ![g].pc = "Unlock"]
  /\ UNCHANGED <<offThreads, containers, faults, mmu, tcalls>>

\* Mutant: the container is returned whatever its type.
TypeAssert_unchecked(g) ==
  /\ ths[g].pc = "assert"
  /\ ths' = [ths EXCEPT ![g].pc = IF ths[g].op = "MustGetPostgres"
                                  THEN "must" ELSE "return"]
  /\ UNCHANGED <<offThreads, running, containers, faults, mmu, tcalls>>

\* GetPostgres: the error of GetContainer is passed on; otherwise
\* pg, ok := container.(*psql.Env).
TypeAssert(g) ==
  /\ ths[g].pc = "assert"
  /\ LET t == ths[g]
         next == IF t.op = "MustGetPostgres" THEN "must" ELSE "return"
     IN IF t.ret.err # NoErr \/ containers[t.ret.container].type = PsqlEnv
        THEN ths' = [ths EXCEPT ![g].pc = next]
        ELSE ths' = [ths EXCEPT ![g].pc = next,
                                ![g].ret.container = NoContainer,
                                ![g].ret.err = ErrServiceTypeMismatch(Postgres, PsqlEnv)]
  /\ UNCHANGED <<offThreads, running, containers, faults, mmu, tcalls>>

\* MustGetPostgres: if err != nil { panic(err) }
MustPanic(g) ==
  /\ ths[g].pc = "must"
  /\ ths' = [ths EXCEPT ![g].pc = "return", ![g].ret.panic = (ths[g].ret.err # NoErr)]
  /\ UNCHANGED <<offThreads, running, containers, faults, mmu, tcalls>>

\* The typed getter returns (or its panic unwinds).
ThreadReturn(g) ==
  /\ ths[g].pc = "return"
  /\ ths' = [ths EXCEPT ![g] = IdleThread]
  /\ UNCHANGED <<offThreads, running, containers, faults, mmu, tcalls>>

\* The configurations of the shared manager: "a" (the service the typed
\* getter looks up), with or without a health check, and "b" depending on it.
ThreadConfigs ==
  {[n \in {"a", "b"} |->
      IF n = "a" THEN Config(TRUE, 0, <<>>, hc) ELSE Config(TRUE, 0, <<"a">>, FALSE)] :
   hc \in BOOLEAN}

InitThreads ==
  /\ config \in ThreadConfigs
  /\ mconfig = DefaultManagerConfig
  /\ registry \in {Names, {"a"}}
  /\ ManagerIdle
  /\ NewRegistry
  /\ NoThreads
  /\ Unused

NextThreads ==
  \/ \E g \in Threads, n \in ThreadNames : GoStartService(g, n)
  \/ \E g \in Threads, n \in ThreadNames : GoStopService(g, n)
  \/ \E g \in Threads, n \in ThreadNames : GoGet(g, n)
  \/ \E g \in Threads, n \in ThreadNames : GoGetContainer(g, n)
  \/ \E g \in Threads, n \in ThreadNames : GoIsRunning(g, n)
  \/ \E g \in Threads : GoListRunning(g)
  \/ \E g \in Threads : GoGetPostgres(g)
  \/ \E g \in Threads : GoMustGetPostgres(g)
  \/ \E g \in Threads : MuLock(g)
  \/ \E g \in Threads : MuUnlock(g)
  \/ \E g \in Threads : MuRLock(g)
  \/ \E g \in Threads : ReadRunning(g)
  \/ \E g \in Threads : MuRUnlock(g)
  \/ \E g \in Threads : SvcLookup(g)
  \/ \E g \in Threads, ok \in BOOLEAN, typ \in ContainerTypes : SvcRun(g, ok, typ)
  \/ \E g \in Threads, ok \in BOOLEAN : SvcCheck(g, ok)
  \/ \E g \in Threads, ok \in BOOLEAN : SvcCleanup(g, ok)
  \/ \E g \in Threads : SvcStore(g)
  \/ \E g \in Threads, ok \in BOOLEAN : SvcTerminate(g, ok)
  \/ \E g \in Threads : SvcDelete(g)
  \/ \E g \in Threads : TypeAssert(g)
  \/ \E g \in Threads : MustPanic(g)
  \/ \E g \in Threads : ThreadReturn(g)

SpecThreads == InitThreads /\ [][NextThreads]_vars

\* ---------------------------------------------------------------- Builder
\* The root services package: NewServicesMap and the Builder, which look
\* names up in DefaultRegistry (the Registry held in runners), called by one
\* goroutine that recovers a panic (assert.Panics) and goes on.
offBuilder == <<mgrvars, thrvars, mu, gs, calls, live, wins, removed, main, toolvars>>

BuilderNames == {"a", "b"}

\* The variadic opts of WithService: none, or one customizer.
BuilderOpts == {"", "o1"}

\* The names... of WithServices and NewServicesMap.
NameLists ==
  UNION {[1..k -> BuilderNames] : k \in 0..MaxNames}

\* Config{Opts: opts} of the root package; Config{} has no options.
RootConfig(opts) == [Priority |-> 0, Opts |-> opts, Dependencies |-> <<>>]

\* What a call that panicked returned: nothing.
NoMap == <<"no map">>

\* DefaultRegistry.Has(name)
Has(name) == name \in DOMAIN runners

\* Mutant: the entry is stored before the registry is asked.
WithService_storesFirst(services, name, opts) ==
  [services |-> MapPut(services, name, RootConfig(opts)),
   panicked |-> ~Has(name)]

\* Builder.WithService on a builder whose map is services.
WithService(services, name, opts) ==
  IF ~Has(name)
  THEN [services |-> services, panicked |-> TRUE]
  ELSE [services |-> MapPut(services, name, RootConfig(opts)), panicked |-> FALSE]

\* Builder.WithServices: WithService for each name in turn; a panic ends
\* the loop.
RECURSIVE WithServices(_, _)
WithServices(services, names) ==
  IF names = <<>>
  THEN [services |-> services, panicked |-> FALSE]
  ELSE LET r == WithService(services, Head(names), "")
       IN IF r.panicked THEN r ELSE WithServices(r.services, Tail(names))

\* NewServicesMap: the loop over names from the map m built so far.  A panic
\* returns no map.
RECURSIVE NewServicesMapFrom(_, _)
NewServicesMapFrom(m, names) ==
  IF names = <<>>
  THEN [m |-> m, panicked |-> FALSE]
  ELSE IF ~Has(Head(names))
       THEN [m |-> NoMap, panicked |-> TRUE]
       ELSE NewServicesMapFrom(MapPut(m, Head(names), RootConfig("")), Tail(names))

NewServicesMap(names) == NewServicesMapFrom(EmptyMap, names)

\* A call of the goroutine: what it was given, the builder's map and the
\* registered names when it was made, and what it left.
BuilderCall(op, names, opts, services, m, panicked) ==
  /\ bld.n < MaxBuilderCalls
  /\ bld' = [services |-> services, op |-> op, names |-> names, opts |-> opts,
             before |-> bld.services, has |-> DOMAIN runners,
             panicked |-> panicked, m |-> m, n |-> bld.n + 1]

CallWithService(name, opts) ==
  /\ LET r == WithService(bld.services, name, opts)
     IN BuilderCall("WithService", <<name>>, opts, r.services, NoMap, r.panicked)
  /\ UNCHANGED <<offBuilder, runners>>

CallWithServices(names) ==
  /\ LET r == WithServices(bld.services, names)
     IN BuilderCall("WithServices", names, "", r.services, NoMap, r.panicked)
  /\ UNCHANGED <<offBuilder, runners>>

CallNewServicesMap(names) ==
  /\ LET r == NewServicesMap(names)
     IN BuilderCall("NewServicesMap", names, "", bld.services, r.m, r.panicked)
  /\ UNCHANGED <<offBuilder, runners>>

\* Register(name, runner) on DefaultRegistry by the same goroutine.
DefaultRegister(name, runner) ==
  /\ bld.n < MaxBuilderCalls
  /\ runners' = IF name \in DOMAIN runners THEN runners
                ELSE MapPut(runners, name, runner)
  /\ bld' = [bld EXCEPT !.op = "Register", !.names = <<name>>, !.opts = "",
                        !.before = bld.services, !.has = DOMAIN runners,
                        !.panicked = FALSE, !.m = NoMap, !.n = @ + 1]
  /\ UNCHANGED offBuilder

\* DefaultRegistry.Unregister(name) by the same goroutine.
DefaultUnregister(name) ==
  /\ bld.n < MaxBuilderCalls
  /\ name \in DOMAIN runners
  /\ runners' = MapRemove(runners, name)
  /\ bld' = [bld EXCEPT !.op = "Unregister", !.names = <<name>>, !.opts = "",
                        !.before = bld.services, !.has = DOMAIN runners,
                        !.panicked = FALSE, !.m = NoMap, !.n = @ + 1]
  /\ UNCHANGED offBuilder

NextBuilder ==
  \/ \E name \in BuilderNames, opts \in BuilderOpts : CallWithService(name, opts)
  \/ \E names \in NameLists : CallWithServices(names)
  \/ \E names \in NameLists : CallNewServicesMap(names)
  \/ \E name \in BuilderNames, runner \in Runners : DefaultRegister(name, runner)
  \/ \E name \in BuilderNames : DefaultUnregister(name)

\* NewBuilder() over an empty DefaultRegistry.
SpecBuilder == InitRegistry /\ [][NextBuilder]_vars

\* ---------------------------------------------------------------- CallMain
\* testutil.CallMain(env, m): Env.Start and Env.Stop are Manager.Start and
\* Manager.Stop of env.manager.
offMain == <<config, mconfig, registry, regvars, thrvars, bld, toolvars>>

\* What m.Run() does: it returns an exit code (0: the tests passed) or panics.
ExitCodes == {0, 1, 2}
RunOutcomes ==
  {[panic |-> FALSE, code |-> c] : c \in ExitCodes} \cup {[panic |-> TRUE, code |-> 0]}

\* What validateLogFields finds: GOAT_LOG_FIELDS_FILE is not set, or the
\* fields are valid, or they are not.
LogFieldChecks == {"no path", "valid", "invalid"}

\* SafeCallError(fn): a panic of fn becomes the returned error.
SafeCallError(outcome) == IF outcome.panic THEN "panic detected" ELSE "nil"

\* var exitCode = 0; env.Start(ctx)
CallMain ==
  /\ main.at = "none"
  /\ BeginCall("Start", "")
  /\ StartEnter(config, "CallMain.started")
  /\ main' = [at |-> "Start", exitCode |-> 0, log |-> <<"Start">>,
              started |-> "-", tests |-> "-", code |-> 0]
  /\ UNCHANGED <<offMain, running, tempManager, renvs, self, rv, eg, envs, seg,
                 containers>>

\* Mutant: a failed start exits without stopping the environment.
CallMainStarted_exitsOnError ==
  /\ pc = "CallMain.started"
  /\ pc' = "idle"
  /\ main' = IF rv # NoErr
             THEN [main EXCEPT !.at = "validate", !.exitCode = 1, !.started = "err"]
             ELSE [main EXCEPT !.at = "Run", !.started = "nil"]
  /\ UNCHANGED <<offMain, running, tempManager, renvs, self, stack, rv, groups, prios,
                 startErr, eg, envs, seg, containers, ops, faults, hist, listed>>

\* env.Start returned: if err != nil { exitCode = 1 } else { run the tests }
CallMainStarted ==
  /\ pc = "CallMain.started"
  /\ pc' = "idle"
  /\ main' = IF rv # NoErr
             THEN [main EXCEPT !.at = "Stop", !.exitCode = 1, !.started = "err"]
             ELSE [main EXCEPT !.at = "Run", !.started = "nil"]
  /\ UNCHANGED <<offMain, running, tempManager, renvs, self, stack, rv, groups, prios,
                 startErr, eg, envs, seg, containers, ops, faults, hist, listed>>

\* SafeCallError(func() error { exitCode = m.Run(); return nil }); a panic
\* sets exitCode = 1.
CallMainRun(outcome) ==
  /\ main.at = "Run"
  /\ main' = [main EXCEPT !.at = "Stop",
                          !.exitCode = IF SafeCallError(outcome) # "nil" THEN 1
                                       ELSE outcome.code,
                          !.tests = IF outcome.panic THEN "panicked" ELSE "returned",
                          !.code = outcome.code,
                          !.log = Append(@, "Run")]
  /\ UNCHANGED <<offMain, mgrvars>>

\* _ = env.Stop(ctx)
CallMainStop ==
  /\ main.at = "Stop"
  /\ BeginCall("Stop", "")
  /\ StopEnter(running, "CallMain.stopped")
  /\ main' = [main EXCEPT !.at = "Stopping", !.log = Append(@, "Stop")]
  /\ UNCHANGED <<offMain, running, tempManager, renvs, self, groups, prios, startErr,
                 eg, containers>>

\* env.Stop returned; its error is dropped.
CallMainStopped ==
  /\ pc = "CallMain.stopped"
  /\ main.at = "Stopping"
  /\ pc' = "idle"
  /\ main' = [main EXCEPT !.at = "validate"]
  /\ UNCHANGED <<offMain, running, tempManager, renvs, self, stack, rv, groups, prios,
                 startErr, eg, envs, seg, containers, ops, faults, hist, listed>>

\* validateLogFields if a path is set, then os.Exit(exitCode).
CallMainExit(check) ==
  /\ main.at = "validate"
  /\ main' = [main EXCEPT !.at = "exited",
                          !.exitCode = IF check = "invalid" THEN 1 ELSE @,
                          !.log = Append(@, "Exit")]
  /\ UNCHANGED <<offMain, mgrvars>>

NextCallMain ==
  \/ CallMain
  \/ StartLoop
  \/ \E n \in Names : GroupGo(n)
  \/ \E n \in Names : UnitCheckDep(n)
  \/ \E n \in Names : UnitNotFound(n)
  \/ \E n \in Names, ok \in BOOLEAN : UnitRun(n, ok)
  \/ \E n \in Names, ok \in BOOLEAN : UnitHealth(n, ok)
  \/ \E n \in Names, ok \in BOOLEAN : UnitHealthTerminate(n, ok)
  \/ \E n \in Names : UnitStore(n)
  \/ GroupWait
  \/ StartCleanupDone
  \/ CallMainStarted
  \/ \E outcome \in RunOutcomes : CallMainRun(outcome)
  \/ CallMainStop
  \/ StopGo
  \/ \E i \in 1..Cardinality(Names), ok \in BOOLEAN : StopTerminate(i, ok)
  \/ \E i \in 1..Cardinality(Names) : StopDelete(i)
  \/ StopWait
  \/ CallMainStopped
  \/ \E check \in LogFieldChecks : CallMainExit(check)

\* TestMain calling CallMain on an Env whose manager is as NewManager made it.
SpecCallMain == Init /\ [][NextCallMain]_vars

\* ---------------------------------------------------------------- tools
\* Nothing but a helper of package tools is in use.
OffStage ==
  /\ NewRegistry
  /\ config = EmptyMap
  /\ mconfig = DefaultManagerConfig
  /\ registry = {}
  /\ ManagerIdle
  /\ NoThreads
  /\ bld = NoBuilder
  /\ main = NoMain

\* ---------------------------------------------------------------- diffMaps
\* map[string]string values over a few keys and values.
DiffKeys == {"k1", "k2", "k3"}
DiffValues == {"v1", "v2"}
StringMaps == UNION {[K -> DiffValues] : K \in SUBSET DiffKeys}

\* Mutant: differentValues carries map2's value.
DiffStep1_map2Value(key, map1, map2, acc) ==
  IF key \notin DOMAIN map2
  THEN [acc EXCEPT !.onlyInMap1 = MapPut(@, key, map1[key])]
  ELSE IF map1[key] # map2[key]
       THEN [acc EXCEPT !.differentValues = MapPut(@, key, map2[key])]
       ELSE acc

\* The body of for key, val := range map1: a key missing from map2 goes to
\* onlyInMap1, a key with another value in map2 to differentValues (with
\* map1's value).
DiffStep1(key, map1, map2, acc) ==
  IF key \notin DOMAIN map2
  THEN [acc EXCEPT !.onlyInMap1 = MapPut(@, key, map1[key])]
  ELSE IF map1[key] # map2[key]
       THEN [acc EXCEPT !.differentValues = MapPut(@, key, map1[key])]
       ELSE acc

\* for key, val := range map1, the keys visited in the order keys.
RECURSIVE DiffRange1(_, _, _, _)
DiffRange1(keys, map1, map2, acc) ==
  IF keys = <<>> THEN acc
  ELSE DiffRange1(Tail(keys), map1, map2, DiffStep1(Head(keys), map1, map2, acc))

\* for key, val := range map2: a key missing from map1 goes to onlyInMap2.
RECURSIVE DiffRange2(_, _, _, _)
DiffRange2(keys, map1, map2, acc) ==
  IF keys = <<>> THEN acc
  ELSE LET key == Head(keys)
       IN DiffRange2(Tail(keys), map1, map2,
            IF key \notin DOMAIN map1
            THEN [acc EXCEPT !.onlyInMap2 = MapPut(@, key, map2[key])]
            ELSE acc)

\* diffMaps(map1, map2), the maps ranged over in the orders order1 and order2.
diffMaps(map1, map2, order1, order2) ==
  DiffRange2(order2, map1, map2,
    DiffRange1(order1, map1, map2,
      [onlyInMap1 |-> EmptyMap, onlyInMap2 |-> EmptyMap,
       differentValues |-> EmptyMap]))

CallDiffMaps ==
  /\ dm.at = "none"
  /\ \E order1 \in PermSeqs(DOMAIN dm.map1), order2 \in PermSeqs(DOMAIN dm.map2) :
       LET r == diffMaps(dm.map1, dm.map2, order1, order2)
       IN dm' = [dm EXCEPT !.at = "returned",
                           !.onlyInMap1 = r.onlyInMap1,
                           !.onlyInMap2 = r.onlyInMap2,
                           !.differentValues = r.differentValues]
  /\ UNCHANGED <<offTools, wm, pd, xb, fl>>

InitDiffMaps ==
  /\ OffStage
  /\ dm \in {[NoDiff EXCEPT !.map1 = m1, !.map2 = m2] : m1, m2 \in StringMaps}
  /\ wm = NoWait
  /\ pd = NoDetector
  /\ xb = NoExecutors
  /\ fl = NoFlow

NextDiffMaps == CallDiffMaps

SpecDiffMaps == InitDiffMaps /\ [][NextDiffMaps]_vars

\* ---------------------------------------------------------------- WaitAppMigration
\* What db.Query(cfg.GetQuery()) gives in one attempt: an error, no row, a
\* row with rows.Err() set, or a row holding a migration version.
QueryResults ==
  {[kind |-> k, version |-> 0] : k \in {"query error", "empty", "rows error"}}
    \cup {[kind |-> "row", version |-> v] : v \in 0..MaxVersion}

\* PostgresqlWaitConfig.Check: the scanned version must reach ExpectedVersion.
Check(version, ExpectedVersion) ==
  IF version < ExpectedVersion THEN "version is wrong" ELSE "nil"

\* The func() error called in each cycle.
Attempt(q, ExpectedVersion) ==
  IF q.kind = "query error" THEN "query error"
  ELSE IF q.kind = "empty" THEN "empty migrations table"
  ELSE IF q.kind = "rows error" THEN "rows error"
  ELSE Check(q.version, ExpectedVersion)

\* Mutant: the loop goes on after a successful attempt.
WaitAttempt_goesOn(q) ==
  /\ wm.at = "loop"
  /\ Len(wm.attempts) < wm.Cycles
  /\ wm' = [wm EXCEPT !.attempts = Append(@, q), !.at = "sleep"]
  /\ UNCHANGED <<offTools, dm, pd, xb, fl>>

\* One iteration of for range cfg.GetCycles(): query and check; return nil
\* when the attempt succeeded.
WaitAttempt(q) ==
  /\ wm.at = "loop"
  /\ Len(wm.attempts) < wm.Cycles
  /\ wm' = IF Attempt(q, wm.ExpectedVersion) = "nil"
           THEN [wm EXCEPT !.attempts = Append(@, q), !.at = "returned", !.ret = "nil"]
           ELSE [wm EXCEPT !.attempts = Append(@, q), !.at = "sleep"]
  /\ UNCHANGED <<offTools, dm, pd, xb, fl>>

\* time.Sleep(cfg.GetInterval()) after a failed attempt.
WaitSleep ==
  /\ wm.at = "sleep"
  /\ wm' = [wm EXCEPT !.sleeps = @ + 1, !.at = "loop"]
  /\ UNCHANGED <<offTools, dm, pd, xb, fl>>

\* The loop is over: return errors.New("migration step failed, too long").
WaitTooLong ==
  /\ wm.at = "loop"
  /\ Len(wm.attempts) >= wm.Cycles
  /\ wm' = [wm EXCEPT !.at = "returned", !.ret = "migration step failed, too long"]
  /\ UNCHANGED <<offTools, dm, pd, xb, fl>>

\* WaitAppMigration(db, cfg) has been entered with cfg.Cycles = c.
InitWait ==
  /\ OffStage
  /\ wm \in {[NoWait EXCEPT !.Cycles = c, !.ExpectedVersion = e, !.at = "loop"] :
               c \in 0..MaxCycles, e \in 1..MaxVersion}
  /\ dm = NoDiff
  /\ pd = NoDetector
  /\ xb = NoExecutors
  /\ fl = NoFlow

NextWait ==
  \/ \E q \in QueryResults : WaitAttempt(q)
  \/ WaitSleep
  \/ WaitTooLong

\* Every query and every sleep returns.
SpecWait == InitWait /\ [][NextWait]_vars /\ WF_vars(NextWait)

\* ---------------------------------------------------------------- PatternDetector
\* Bytes of the output of the binary: two letters and the newline.  The
\* pattern ("WARNING: DATA RACE" in directExecutor) is two bytes long, so
\* that a Write can end inside it.
Bytes == {"x", "y", "\n"}
Pattern == <<"x", "y">>
Streams == UNION {[1..k -> Bytes] : k \in 0..MaxStream}

\* strings.Contains(l, pattern)
Contains(l, pattern) ==
  \E i \in 1..(Len(l) - Len(pattern) + 1) :
    SubSeq(l, i, i + Len(pattern) - 1) = pattern

\* bytes.Buffer.ReadString('\n'): the bytes up to and including the first
\* newline; without a newline, everything that is in the buffer together
\* with io.EOF.  What is returned is taken out of the buffer in both cases.
ReadString(buf) ==
  LET nl == {i \in 1..Len(buf) : buf[i] = "\n"}
  IN IF nl = {}
     THEN [l |-> buf, rest |-> <<>>, err |-> "EOF"]
     ELSE LET i == CHOOSE j \in nl : \A k \in nl : j <= k
          IN [l |-> SubSeq(buf, 1, i), rest |-> SubSeq(buf, i + 1, Len(buf)),
              err |-> "nil"]

\* The loop of PatternDetector.Write over the buffer: count the lines read
\* without error that contain the pattern, stop at the first error.
RECURSIVE ReadLines(_, _, _)
ReadLines(buf, pattern, count) ==
  LET r == ReadString(buf)
  IN IF r.err = "nil"
     THEN ReadLines(r.rest, pattern, IF Contains(r.l, pattern) THEN count + 1 ELSE count)
     ELSE [buf |-> r.rest, count |-> count]

\* PatternDetector.Write(p), p being the next k bytes of the stream.
Write(k) ==
  /\ k \in 1..Len(pd.stream)
  /\ LET p == SubSeq(pd.stream, 1, k)
         r == ReadLines(pd.buf \o p, Pattern, pd.count)
     IN pd' = [stream |-> SubSeq(pd.stream, k + 1, Len(pd.stream)),
               written |-> pd.written \o p,
               buf |-> r.buf,
               count |-> r.count,
               chunks |-> pd.chunks + 1]
  /\ UNCHANGED <<offTools, dm, wm, xb, fl>>

\* Executor.checkOutput for a detector: the data-race error.
checkOutput == IF pd.count # 0 THEN "race condition found" ELSE "nil"

\* A new detector and the output the binary is going to produce.
InitDetector ==
  /\ OffStage
  /\ pd \in {[NoDetector EXCEPT !.stream = s] : s \in Streams}
  /\ dm = NoDiff
  /\ wm = NoWait
  /\ xb = NoExecutors
  /\ fl = NoFlow

NextDetector == \E k \in 1..MaxStream : Write(k)

SpecDetector == InitDetector /\ [][NextDetector]_vars

\* ---------------------------------------------------------------- ExecutorBuilder
\* The settings of a builder when Build is called: NewExecutorBuilder(binary)
\* followed by With... calls.  WithDebugPort implies debug.
BuilderSettings ==
  {s \in [debug : BOOLEAN, debugPort : {"", "4000"}, disableStdout : BOOLEAN,
          outputFile : {"", "out.log"}] :
     s.debugPort # "" => s.debug}

\* os.Getenv(key)
Getenv(environ, key) == IF key \in DOMAIN environ THEN environ[key] ELSE ""

\* The os.Setenv calls of Build on the process environment environ.
BuildSetenv(b, environ) ==
  LET e1 == IF b.debug /\ b.debugPort # ""
            THEN MapPut(environ, "GOAT_REMOTE_DEBUG_PORT", b.debugPort) ELSE environ
      e2 == IF b.debug THEN MapPut(e1, "GOAT_REMOTE_DEBUG", "true") ELSE e1
      e3 == IF b.disableStdout THEN MapPut(e2, "GOAT_DISABLE_STDOUT", "true") ELSE e2
  IN IF b.outputFile # "" THEN MapPut(e3, "GOAT_OUTPUT_FILE", b.outputFile) ELSE e3

\* NewExecutor(binary, envs, args...): debugExecutor or directExecutor
\* according to the process environment; created tells whether os.Create of
\* the output file succeeded.
NewExecutor(environ, created) ==
  [debug |-> Getenv(environ, "GOAT_REMOTE_DEBUG") = "true",
   port |-> IF Getenv(environ, "GOAT_REMOTE_DEBUG") # "true" THEN ""
            ELSE IF Getenv(environ, "GOAT_REMOTE_DEBUG_PORT") # ""
                 THEN Getenv(environ, "GOAT_REMOTE_DEBUG_PORT") ELSE "2345",
   stdout |-> Getenv(environ, "GOAT_DISABLE_STDOUT") # "true",
   outputFile |-> IF created THEN Getenv(environ, "GOAT_OUTPUT_FILE") ELSE ""]

\* ExecutorBuilder.Build on a builder with the settings b.
Build(b, created) ==
  /\ Len(xb.built) < MaxBuilds
  /\ LET environ == BuildSetenv(b, xb.environ)
     IN xb' = [environ |-> environ,
               built |-> Append(xb.built, [builder |-> b,
                                           executor |-> NewExecutor(environ, created)])]
  /\ UNCHANGED <<offTools, dm, wm, pd, fl>>

\* A process in whose environment none of the GOAT_ variables is set.
InitExecutors ==
  /\ OffStage
  /\ xb = NoExecutors
  /\ dm = NoDiff
  /\ wm = NoWait
  /\ pd = NoDetector
  /\ fl = NoFlow

NextExecutors == \E b \in BuilderSettings, created \in BOOLEAN : Build(b, created)

SpecExecutors == InitExecutors /\ [][NextExecutors]_vars

\* ---------------------------------------------------------------- Flow
Handlers == {"grpc", "http"}

\* A before / after callback: a nil func, one that returns nil, one that
\* returns an error.
Callbacks == {"nil", "ok", "err"}

FlowOps == {"Start", "Stop"}

\* NewFlow(t, env, exe, hcb, gCb): NewMocksHandler makes a handler, with a
\* listening socket, for each callback given; parser tells whether exe is an
\* *Executor with a fieldsParser.
NewFlow(grpc, http, parser) ==
  [mocks |-> [grpc |-> grpc, http |-> http], parser |-> parser,
   listener |-> [grpc |-> IF grpc THEN "open" ELSE "none",
                 http |-> IF http THEN "open" ELSE "none"],
   pending |-> [grpc |-> 0, http |-> 0], serving |-> [grpc |-> 0, http |-> 0],
   at |-> "idle", calls |-> 0, op |-> "-", before |-> "nil", after |-> "nil",
   log |-> <<>>, failed |-> FALSE]

\* An entry of the log of the latest call of Flow.Start / Flow.Stop: what was
\* called and whether it succeeded.
FlowEvent(ev, ok) == [ev |-> ev, ok |-> ok]

\* require.NoError(t, err): a non-nil err marks the test failed and ends the
\* calling function (t.FailNow).
RequireNoError(f, ev, ok, next) ==
  [f EXCEPT !.log = Append(@, FlowEvent(ev, ok)),
            !.failed = @ \/ ~ok,
            !.at = IF ok THEN next ELSE "idle"]

\* A test calls f.Start(t, before, after) or f.Stop(t, before, after).
FlowCall(op, before, after) ==
  /\ fl.at = "idle"
  /\ fl.calls < MaxFlowCalls
  /\ fl' = [fl EXCEPT !.calls = @ + 1, !.op = op, !.before = before,
                      !.after = after, !.log = <<>>, !.at = "before"]
  /\ UNCHANGED <<offTools, dm, wm, pd, xb>>

\* if before != nil { require.NoError(t, before(f.env)) }
FlowBefore_goesOn ==
  /\ fl.at = "before"
  /\ fl' = IF fl.before = "nil" THEN [fl EXCEPT !.at = "mocks"]
           ELSE [RequireNoError(fl, "before", fl.before = "ok", "mocks")
                   EXCEPT !.at = "mocks"]
  /\ UNCHANGED <<offTools, dm, wm, pd, xb>>

FlowBefore ==
  /\ fl.at = "before"
  /\ fl' = IF fl.before = "nil" THEN [fl EXCEPT !.at = "mocks"]
           ELSE RequireNoError(fl, "before", fl.before = "ok", "mocks")
  /\ UNCHANGED <<offTools, dm, wm, pd, xb>>

\* MocksHandler.Start: one goroutine per handler, which will call the
\* handler's Start; nothing is waited for and nothing is returned.
MocksStart(f) ==
  [f EXCEPT !.pending = [h \in Handlers |-> IF f.mocks[h] THEN @[h] + 1 ELSE @[h]]]

\* MocksHandler.Stop: the listeners are closed (errors dropped); every Serve
\* on them returns net.ErrClosed.
MocksStop(f) ==
  [f EXCEPT !.listener = [h \in Handlers |-> IF f.mocks[h] THEN "closed" ELSE @[h]],
            !.serving = [h \in Handlers |-> 0]]

\* f.mocks.Start(t) in Flow.Start, f.mocks.Stop() in Flow.Stop.
FlowMocks ==
  /\ fl.at = "mocks"
  /\ LET f == IF fl.op = "Start" THEN MocksStart(fl) ELSE MocksStop(fl)
     IN fl' = [f EXCEPT !.log = Append(@, FlowEvent("mocks", TRUE)), !.at = "app"]
  /\ UNCHANGED <<offTools, dm, wm, pd, xb>>

\* The goroutine of MocksHandler.Start runs handler.Start() = Serve(listener):
\* on a closed listener it returns net.ErrClosed, which is not reported; any
\* other error is reported with t.Error and stops nothing.  The log keeps what
\* happens while a call of Flow.Start / Flow.Stop is in progress.
MockServe(h, fails) ==
  /\ fl.pending[h] > 0
  /\ LET outcome == IF fl.listener[h] = "closed" THEN "closed"
                    ELSE IF fails THEN "error" ELSE "serving"
     IN fl' = [fl EXCEPT !.pending[h] = @ - 1,
                         !.serving[h] = IF outcome = "serving" THEN @ + 1 ELSE @,
                         !.failed = @ \/ outcome = "error",
                         !.log = IF fl.at = "idle" THEN @
                                 ELSE Append(@, FlowEvent("serve", outcome = "serving"))]
  /\ UNCHANGED <<offTools, dm, wm, pd, xb>>

\* require.NoError(t, f.app.Start(), ...) in Flow.Start;
\* require.NoError(t, f.app.Stop(), ...) in Flow.Stop.
FlowApp(ok) ==
  /\ fl.at = "app"
  /\ fl' = RequireNoError(fl, "app", ok,
                          IF fl.op = "Start" THEN "after" ELSE "again")
  /\ UNCHANGED <<offTools, dm, wm, pd, xb>>

\* _ = f.app.Stop() in Flow.Stop, after the first Stop returned nil.
FlowAppAgain(ok) ==
  /\ fl.at = "again"
  /\ fl' = [fl EXCEPT !.log = Append(@, FlowEvent("app", ok)), !.at = "after"]
  /\ UNCHANGED <<offTools, dm, wm, pd, xb>>

\* if after != nil { require.NoError(t, after(f.env)) }
FlowAfter ==
  /\ fl.at = "after"
  /\ LET next == IF fl.op = "Start" THEN "idle" ELSE "merge"
     IN fl' = IF fl.after = "nil" THEN [fl EXCEPT !.at = next]
              ELSE RequireNoError(fl, "after", fl.after = "ok", next)
  /\ UNCHANGED <<offTools, dm, wm, pd, xb>>

\* The end of Flow.Stop: f.env.mergeLogFieldStats(...) when the application
\* is an *Executor with a fieldsParser.
FlowMerge ==
  /\ fl.at = "merge"
  /\ fl' = IF fl.parser
           THEN [fl EXCEPT !.log = Append(@, FlowEvent("merge", TRUE)),
                           !.at = "idle"]
           ELSE [fl EXCEPT !.at = "idle"]
  /\ UNCHANGED <<offTools, dm, wm, pd, xb>>

InitFlow ==
  /\ OffStage
  /\ fl \in {NewFlow(g, h, p) : g \in BOOLEAN, h \in BOOLEAN, p \in BOOLEAN}
  /\ dm = NoDiff
  /\ wm = NoWait
  /\ pd = NoDetector
  /\ xb = NoExecutors

NextFlow ==
  \/ \E op \in FlowOps, before \in Callbacks, after \in Callbacks :
       FlowCall(op, before, after)
  \/ FlowBefore
  \/ FlowMocks
  \/ \E h \in Handlers, fails \in BOOLEAN : MockServe(h, fails)
  \/ \E ok \in BOOLEAN : FlowApp(ok)
  \/ \E ok \in BOOLEAN : FlowAppAgain(ok)
  \/ FlowAfter
  \/ FlowMerge

SpecFlow == InitFlow /\ [][NextFlow]_vars

\* ================================================================ properties
DepSet(cfg, n) == Range(cfg[n].Dependencies)

\* The top-level call that returned last and its error.
result == [op |-> hist.op, err |-> rv]

\* The top-level call op has returned and no other call was made since.
Returned(op) == pc = "idle" /\ result.op = op

\* The names of S in ascending order, each once.
SortedSeqOf(S) ==
  CHOOSE s \in PermSeqs(S) : \A i, j \in 1..Len(s) : i < j => NameLess(s[i], s[j])

RunningContainers ==
  {running[n].Container : n \in DOMAIN running}
    \cup {tempManager.running[n].Container : n \in DOMAIN tempManager.running}

StartErrKinds ==
  {"DependencyNotMet", "ServiceNotFound", "ServiceStartFailed", "HealthCheckFailed"}

\* Enabled services all of whose dependencies are enabled services.
SatisfiableLoose(cfg) ==
  {n \in EnabledNames(cfg) : DepSet(cfg, n) \subseteq EnabledNames(cfg)}

\* Enabled services all of whose dependencies are satisfiable services of an
\* earlier priority group.
RECURSIVE SatisfiableFrom(_, _)
SatisfiableFrom(cfg, S) ==
  LET T == {n \in EnabledNames(cfg) :
              \A d \in DepSet(cfg, n) : d \in S /\ cfg[d].Priority < cfg[n].Priority}
  IN IF T = S THEN S ELSE SatisfiableFrom(cfg, T)

SatisfiableStrict(cfg) == SatisfiableFrom(cfg, {})

\* C1 as stated: with every name registered and no runner, health check or
\* Terminate failing, ListRunning after Start returns exactly the enabled
\* services whose dependencies were satisfiable (under either reading of
\* "satisfiable"), sorted.
C1_Original ==
  (Returned("Start") /\ faults = 0 /\ EnabledNames(config) \subseteq registry
     /\ listed # NotListed)
    => listed \in {SortedSeqOf(SatisfiableLoose(config)),
                   SortedSeqOf(SatisfiableStrict(config))}

\* C1 (amended): after Start returns, ListRunning returns Enabled service
\* names only, ascending and without duplicates: all of them when Start
\* returned nil, and none when Start failed with StopOnError and no cleanup
\* termination failed.
C1_StartThenList ==
  (Returned("Start") /\ listed # NotListed)
    => /\ Range(listed) \subseteq EnabledNames(config)
       /\ listed = SortedSeqOf(Range(listed))
       /\ result.err = NoErr => Range(listed) = EnabledNames(config)
       /\ (result.err # NoErr /\ mconfig.StopOnError /\ hist.stopErrs = {})
            => listed = <<>>

C1_Witness ==
  /\ Returned("Start")
  /\ result.err = NoErr
  /\ listed # NotListed
  /\ Len(listed) >= 2
  /\ \E n \in DOMAIN config : ~config[n].Enabled

\* C2: priority groups run one after the other in ascending order: whenever
\* startService has been entered for a service, every enabled service of a
\* lower priority has finished its startService without error before (so no
\* later group is attempted after a failed group), and it is in the running
\* set while the later group runs.
C2_GroupsSequential ==
  hist.op = "Start" =>
    \A n \in hist.attempted, m \in EnabledNames(config) :
      config[m].Priority < config[n].Priority =>
        /\ m \in DOMAIN hist.uerr
        /\ hist.uerr[m] = NoErr
        /\ pc \in {"startGroup", "Start.loop"} => m \in DOMAIN running

C2_Witness ==
  /\ hist.op = "Start"
  /\ pc = "startGroup"
  /\ \E n \in DOMAIN eg.units :
       /\ eg.units[n].pc = "deps"
       /\ \E d \in DepSet(config, n) :
            /\ d \in EnabledNames(config)
            /\ config[d].Priority < config[n].Priority
            /\ d \in DOMAIN running

\* C3 as stated: an enabled service with a dependency on another enabled
\* service of the same priority, not running when Start was called, always
\* fails with DependencyNotMet (also when no external call fails).
C3_Original ==
  (hist.op = "Start" /\ faults = 0) =>
    \A n \in DOMAIN hist.uerr :
      (\E d \in DepSet(config, n) :
          /\ d # n
          /\ d \in EnabledNames(config)
          /\ config[d].Priority = config[n].Priority
          /\ \A c \in hist.before : c.svc # d)
        => hist.uerr[n].kind = "DependencyNotMet"

\* C3 (amended): a dependency check is evaluated against the running set as it
\* is when the check executes: it passes exactly when a record of the
\* dependency is in the running set at that moment, so a service depending on a
\* service of its own priority fails with DependencyNotMet exactly in the
\* schedulings where its check runs before the sibling's record is inserted.
C3_LiveCheck ==
  /\ \A c \in hist.checks : c.ok = c.seen
  /\ \A n \in DOMAIN hist.uerr :
       hist.uerr[n].kind = "DependencyNotMet"
         <=> \E c \in hist.checks : c.svc = n /\ ~c.seen

C3_Witness ==
  /\ Returned("Start")
  /\ result.err = NoErr
  /\ \E c \in hist.checks :
       /\ c.svc # c.dep
       /\ config[c.svc].Priority = config[c.dep].Priority
       /\ c.ok

\* Some enabled service lists a dependency that is not an enabled service.
DanglingDependency ==
  \E n \in EnabledNames(config) :
    \E d \in DepSet(config, n) : d \notin EnabledNames(config)

\* C4 as stated: a configuration with a Dependencies entry naming a service
\* absent from the enabled set makes Start fail with DependencyNotMet and,
\* with StopOnError, leaves the running set empty (also when every enabled
\* name is registered and no external call fails).
C4_Original ==
  (Returned("Start") /\ faults = 0 /\ EnabledNames(config) \subseteq registry
     /\ \E n \in DOMAIN config :
          \E d \in DepSet(config, n) : d \notin EnabledNames(config))
    => /\ result.err.kind = "DependencyNotMet"
       /\ mconfig.StopOnError => DOMAIN running = {}

\* C4 (amended): when an enabled service has a Dependencies entry naming a
\* service absent from the enabled set, Start fails with the first error a
\* unit returned, which is DependencyNotMet unless a unit failed in another
\* way; with StopOnError the running set is empty after Start returns if no
\* cleanup termination failed.
C4_DanglingDependency ==
  (Returned("Start") /\ DanglingDependency)
    => /\ result.err # NoErr
       /\ result.err = hist.first
       /\ (\A e \in Range(hist.uerr) : e.kind \in {"nil", "DependencyNotMet"})
            => result.err.kind = "DependencyNotMet"
       /\ (mconfig.StopOnError /\ hist.stopErrs = {}) => DOMAIN running = {}

C4_Witness ==
  /\ Returned("Start")
  /\ DanglingDependency
  /\ result.err.kind = "DependencyNotMet"
  /\ mconfig.StopOnError
  /\ hist.stored # {}
  /\ DOMAIN running = {}

\* Dependency edges between enabled services that point to a later group.
Inverted ==
  {e \in Names \X Names :
     /\ e[1] \in EnabledNames(config)
     /\ e[2] \in EnabledNames(config)
     /\ e[2] \in DepSet(config, e[1])
     /\ config[e[2]].Priority > config[e[1]].Priority}

\* C5: groups are not reordered by dependency edges: when enabled S depends
\* on enabled D of a strictly greater priority, S is never in a running set,
\* D's runner is never invoked, and a Start that returns returns an error.
C5_NoReorder ==
  \A e \in Inverted :
    /\ e[1] \notin DOMAIN running
    /\ e[1] \notin DOMAIN tempManager.running
    /\ hist.runCalls[e[2]] = 0
    /\ Returned("Start") => result.err # NoErr

C5_Witness ==
  /\ Inverted # {}
  /\ Returned("Start")
  /\ result.err.kind = "DependencyNotMet"
  /\ \E e \in Inverted : e[1] \in hist.attempted

\* C6: when Start fails with StopOnError, Terminate has been invoked on the
\* container of every service that started, Start returns the first start
\* failure (never the error of the cleanup Stop), and the running set is
\* empty if no cleanup termination failed.
C6_Rollback ==
  (Returned("Start") /\ result.err # NoErr /\ mconfig.StopOnError)
    => /\ result.err = hist.first
       /\ result.err.kind \in StartErrKinds
       /\ \A c \in hist.stored : c \in DOMAIN hist.termCalls
       /\ hist.stopErrs = {} => DOMAIN running = {}

C6_Witness ==
  /\ Returned("Start")
  /\ result.err # NoErr
  /\ mconfig.StopOnError
  /\ hist.stopErrs # {}
  /\ \E c, d \in hist.stored : config[c.svc].Priority < config[d.svc].Priority

\* A goroutine of the current group still holds container c.
HeldByUnit(c) ==
  /\ pc \in {"startGroup", "Restart.start"}
  /\ c.svc \in DOMAIN eg.units
  /\ eg.units[c.svc].container = c
  /\ eg.units[c.svc].pc # "done"

InFlight == {n \in DOMAIN eg.units : eg.units[n].pc # "done"}

\* C8: with MaxParallel = k > 0 at most k units of a group are in flight.
C8_MaxParallel ==
  (pc = "startGroup" /\ mconfig.MaxParallel > 0)
    => Cardinality(InFlight) <= mconfig.MaxParallel

C8_Witness ==
  /\ pc = "startGroup"
  /\ mconfig.MaxParallel > 0
  /\ mconfig.MaxParallel = 2
  /\ Cardinality(InFlight) = mconfig.MaxParallel
  /\ eg.pending # {}

\* C9: a Stop returns nil exactly when none of its terminations failed, and
\* then the running set is empty (ListRunning returns nothing) and Terminate
\* was invoked exactly once on each container that was running and on no
\* other.
C9_RoundTrip ==
  Returned("Stop") =>
    /\ result.err = NoErr <=> hist.stopErrs = {}
    /\ result.err = NoErr =>
         /\ DOMAIN running = {}
         /\ DOMAIN hist.termCalls = hist.before
         /\ \A c \in hist.before : hist.termCalls[c] = 1
         /\ listed # NotListed => listed = <<>>

C9_Witness ==
  /\ Returned("Stop")
  /\ result.err = NoErr
  /\ Cardinality(hist.before) >= 2
  /\ listed = <<>>

\* The services an error value reports as failed.
Reported(err) == IF err = NoErr THEN {} ELSE {err.ServiceName}

\* C10 as stated: when two or more terminations fail, the error returned by
\* Stop reports every failed service.
C10_Aggregate ==
  (Returned("Stop") /\ Cardinality(hist.stopErrs) >= 2)
    => \A e \in hist.stopErrs : e.ServiceName \in Reported(result.err)

\* C11: Stop preserves partial success: when Stop has returned, a service
\* that was running is out of the running set exactly when its Terminate
\* succeeded; a service whose Terminate failed is still there with its
\* original record; nothing else is in the running set; the error returned
\* is one of the termination errors.
C11_PartialStop ==
  Returned("Stop") =>
    /\ DOMAIN running \subseteq DOMAIN hist.was
    /\ \A n \in DOMAIN hist.was :
         IF containers[hist.was[n].Container].terminated
         THEN n \notin DOMAIN running
         ELSE n \in DOMAIN running /\ running[n] = hist.was[n]
    /\ result.err # NoErr => result.err \in hist.stopErrs
    /\ \A e \in hist.stopErrs : e.ServiceName \in DOMAIN running

C11_Witness ==
  /\ Returned("Stop")
  /\ result.err # NoErr
  /\ DOMAIN running # {}
  /\ DOMAIN running # DOMAIN hist.was

\* C12: Stop on an empty running set returns nil, invokes no Terminate, no
\* runner and no health check, and leaves the running set empty.
C12_StopEmpty ==
  (Returned("Stop") /\ DOMAIN hist.was = {})
    => /\ result.err = NoErr
       /\ hist.termCalls = EmptyMap
       /\ \A n \in Names : hist.runCalls[n] = 0 /\ hist.hcCalls[n] = 0
       /\ hist.stored = {} /\ hist.gone = {}
       /\ running = EmptyMap

C12_Witness ==
  /\ Returned("Stop")
  /\ DOMAIN hist.was = {}
  /\ ops = 2
  /\ DOMAIN containers # {}

\* C13 as stated: in Stop, Terminate is invoked on a service only after it
\* has been invoked on every snapshot entry of a greater priority.
C13_ReverseOrder ==
  [][\A i \in 1..Len(envs) :
       (/\ pc = "Stop"
        /\ i \in DOMAIN seg.units
        /\ seg.units[i].pc = "terminate"
        /\ seg'.units[i].pc # "terminate")
         => \A j \in 1..Len(envs) :
              envs[j].Config.Priority > envs[i].Config.Priority
                => j \in DOMAIN seg.units /\ seg.units[j].pc # "terminate"]_vars

\* The dependencies of the record of service n were all running, n apart,
\* when the call began.
DepsWereRunning(n) ==
  Range(hist.was[n].Config.Dependencies) \subseteq DOMAIN hist.was \ {n}

\* C14 as stated: Restart of a name that is not running returns
\* ServiceNotRunning without any effect; Restart of a running name (whose
\* dependencies are running) invokes Terminate once, on its container only,
\* invokes its runner once and leaves the other records unchanged.
C14_Original ==
  Returned("Restart") =>
    IF hist.arg \notin DOMAIN hist.was
    THEN /\ result.err = ErrServiceNotRunning(hist.arg)
         /\ hist.termCalls = EmptyMap
         /\ \A m \in Names : hist.runCalls[m] = 0
         /\ running = hist.was
    ELSE DepsWereRunning(hist.arg) =>
           /\ DOMAIN hist.termCalls = {hist.was[hist.arg].Container}
           /\ hist.termCalls[hist.was[hist.arg].Container] = 1
           /\ \A m \in Names : hist.runCalls[m] = IF m = hist.arg THEN 1 ELSE 0
           /\ \A m \in DOMAIN hist.was \ {hist.arg} :
                m \in DOMAIN running /\ running[m] = hist.was[m]

\* C14 (amended): Restart of a name that is not running returns
\* ServiceNotRunning, invokes neither Terminate nor a runner and leaves the
\* running set unchanged.  Restart of a running name invokes Terminate once
\* on that service's container and on no other running container.  If that
\* Terminate fails, Restart returns ServiceStopFailed, no runner is invoked
\* and the running set is unchanged.  If it succeeds, the record is deleted
\* and startService runs once with the configuration of the record: the
\* service's runner is invoked once if the name is registered and every
\* dependency of the record is running, and not at all otherwise; the
\* service is running again, with the record's configuration and a new
\* container, exactly when Restart returns nil.  No other service's runner
\* is invoked and the records of all other services are unchanged.
C14_Restart ==
  Returned("Restart") =>
    IF hist.arg \notin DOMAIN hist.was
    THEN /\ result.err = ErrServiceNotRunning(hist.arg)
         /\ hist.termCalls = EmptyMap
         /\ \A m \in Names : hist.runCalls[m] = 0
         /\ running = hist.was
    ELSE LET n == hist.arg
             c == hist.was[n].Container
         IN /\ c \in DOMAIN hist.termCalls /\ hist.termCalls[c] = 1
            /\ \A d \in DOMAIN hist.termCalls \ {c} :
                 d.svc = n /\ d \notin hist.before /\ containers[d].unhealthy
            /\ \A m \in Names \ {n} : hist.runCalls[m] = 0
            /\ \A m \in DOMAIN hist.was \ {n} :
                 m \in DOMAIN running /\ running[m] = hist.was[m]
            /\ DOMAIN running \subseteq DOMAIN hist.was
            /\ IF containers[c].terminated
               THEN /\ hist.runCalls[n] =
                         IF n \in registry /\ DepsWereRunning(n) THEN 1 ELSE 0
                    /\ result.err.kind # "ServiceStopFailed"
                    /\ n \in DOMAIN running <=> result.err = NoErr
                    /\ n \in DOMAIN running =>
                         /\ running[n].Config = hist.was[n].Config
                         /\ running[n].Container \notin hist.before
               ELSE /\ hist.runCalls[n] = 0
                    /\ result.err = ErrServiceStopFailed(n, "terminate")
                    /\ running = hist.was

C14_Witness ==
  /\ Returned("Restart")
  /\ result.err = NoErr
  /\ hist.arg \in DOMAIN hist.was
  /\ hist.was[hist.arg].Config.Dependencies # <<>>
  /\ hist.runCalls[hist.arg] = 1
  /\ Cardinality(DOMAIN running) >= 2

\* C15 as stated: Restart of a running service never fails with
\* DependencyNotMet.
C15_RestartBypassesDeps ==
  (Returned("Restart") /\ hist.arg \in DOMAIN hist.was)
    => result.err.kind # "DependencyNotMet"

\* C16: a RestartAll in which no termination and no start fails returns nil;
\* when RestartAll returns nil, the running set holds exactly the services
\* that were running when it was called (whatever the declared configuration
\* enables), each with the configuration of its old record and a container
\* created by this call, each old container got Terminate exactly once, each
\* of these services' runners ran once and no other runner ran; the restart
\* goes through the priorities of the recovered configuration in ascending
\* order.
C16_RestartAll ==
  /\ (Returned("RestartAll") /\ hist.stopErrs = {}
        /\ \A e \in Range(hist.uerr) : e = NoErr)
       => result.err = NoErr
  /\ (Returned("RestartAll") /\ result.err = NoErr)
       => /\ DOMAIN running = DOMAIN hist.was
          /\ \A n \in DOMAIN hist.was :
               /\ running[n].Config = hist.was[n].Config
               /\ running[n].Container \notin hist.before
               /\ running[n].Container \in hist.stored
               /\ hist.was[n].Container \in DOMAIN hist.termCalls
               /\ hist.termCalls[hist.was[n].Container] = 1
               /\ hist.runCalls[n] = 1
          /\ \A n \in Names \ DOMAIN hist.was : hist.runCalls[n] = 0
          /\ listed # NotListed => listed = SortedSeqOf(DOMAIN hist.was)
  /\ (hist.op = "RestartAll" /\ self = "temp")
       => \A n \in hist.attempted, m \in DOMAIN tempManager.config :
            tempManager.config[m].Priority < tempManager.config[n].Priority =>
              /\ m \in DOMAIN hist.uerr
              /\ hist.uerr[m] = NoErr
              /\ pc \in {"startGroup", "Start.loop"} => m \in DOMAIN tempManager.running

C16_Witness ==
  /\ Returned("RestartAll")
  /\ result.err = NoErr
  /\ \E n, m \in DOMAIN hist.was :
       hist.was[n].Config.Priority < hist.was[m].Config.Priority
  /\ DOMAIN hist.was # EnabledNames(config)
  /\ listed # NotListed

\* C17: when the re-start phase of RestartAll fails, RestartAll returns the
\* first start error and the Manager's running set is empty (ListRunning
\* returns nothing), whatever StopOnError is.
C17_RestartAllStartFails ==
  (Returned("RestartAll") /\ result.err.kind \in StartErrKinds)
    => /\ running = EmptyMap
       /\ result.err = hist.first
       /\ listed # NotListed => listed = <<>>

C17_Witness ==
  /\ Returned("RestartAll")
  /\ result.err.kind \in StartErrKinds
  /\ ~mconfig.StopOnError
  /\ hist.stored # {}
  /\ listed = <<>>

\* ------------------------------------------------------- Registry claims
\* The goroutine g is in method op, at position at.
At(g, op, at) == gs[g].op = op /\ gs[g].pc = at

\* Positions at which a goroutine holds the mutex for writing / for reading.
WriterSection == {"Register", "Register.insert", "Unregister", "Unlock"}
ReaderSection == {"Get", "Has", "List", "RUnlock"}

\* C18: a Register of a name that is registered (by a Register that has
\* returned, not undone by an Unregister) returns ServiceAlreadyRegistered
\* and leaves the map as it was: same names, same runners, so the runner of
\* the first registration stays.
C18_DuplicateRegister ==
  \A g \in Goroutines :
    (At(g, "Register", "Unlock") /\ gs[g].name \in DOMAIN live)
      => /\ gs[g].ret.err = ErrServiceAlreadyRegistered(gs[g].name)
         /\ runners = live

C18_Witness ==
  \E g \in Goroutines :
    /\ At(g, "Register", "Unlock")
    /\ gs[g].ret.err = ErrServiceAlreadyRegistered(gs[g].name)
    /\ live[gs[g].name] # gs[g].runner

\* C19: Get and Has find a name exactly when its last successful Register
\* was not followed by an Unregister, Get returns that Register's runner and
\* (nil, false) for an absent name, List returns exactly the registered
\* names once each, Unregister removes the name and nothing else (nothing
\* at all when it is absent), and Register of an absent name succeeds, also
\* after an Unregister.
C19_RegistryState ==
  \A g \in Goroutines :
    /\ At(g, "Get", "RUnlock")
         => /\ gs[g].ret.ok = (gs[g].name \in DOMAIN live)
            /\ gs[g].ret.runner = IF gs[g].name \in DOMAIN live
                                  THEN live[gs[g].name] ELSE NilRunner
            /\ gs[g].ret.err = NoErr
    /\ At(g, "Has", "RUnlock") => gs[g].ret.ok = (gs[g].name \in DOMAIN live)
    /\ At(g, "List", "RUnlock")
         => /\ Range(gs[g].ret.names) = DOMAIN live
            /\ Len(gs[g].ret.names) = Cardinality(DOMAIN live)
    /\ At(g, "Unregister", "Unlock") => runners = MapRemove(live, gs[g].name)
    /\ (At(g, "Register", "Unlock") /\ gs[g].name \notin DOMAIN live)
         => /\ gs[g].ret.err = NoErr
            /\ runners = MapPut(live, gs[g].name, gs[g].runner)

C19_Witness ==
  \E g \in Goroutines :
    /\ At(g, "Get", "RUnlock")
    /\ gs[g].ret.ok
    /\ wins[gs[g].name] = 2
    /\ removed[gs[g].name] = 1

\* C20: among the Register calls of one name that are not separated by an
\* Unregister exactly one returns nil and the others ServiceAlreadyRegistered,
\* and Get returns the runner of the one that returned nil; a goroutine that
\* holds the mutex and is about to read the map finds it as the returned
\* calls left it, and no goroutine is inside the map while a writer is.
C20_Atomic ==
  /\ \A n \in RegistryNames :
       wins[n] - removed[n] = IF n \in DOMAIN live THEN 1 ELSE 0
  /\ \A g \in Goroutines :
       /\ At(g, "Register", "Unlock")
            => /\ gs[g].ret.err \in {NoErr, ErrServiceAlreadyRegistered(gs[g].name)}
               /\ gs[g].ret.err = NoErr
                    => /\ gs[g].name \notin DOMAIN live
                       /\ gs[g].name \in DOMAIN runners
                       /\ runners[gs[g].name] = gs[g].runner
       /\ (At(g, "Get", "RUnlock") /\ wins[gs[g].name] > removed[gs[g].name])
            => gs[g].ret.ok /\ gs[g].ret.runner = live[gs[g].name]
       /\ gs[g].pc \in {"Register", "Unregister", "Get", "Has", "List"}
            => runners = live
       /\ gs[g].pc \in WriterSection
            => \A h \in Goroutines \ {g} :
                 gs[h].pc \notin WriterSection \cup ReaderSection

C20_Witness ==
  \E g, h, k \in Goroutines :
    /\ h # k
    /\ At(g, "Register", "Unlock") /\ gs[g].ret.err = NoErr
    /\ At(h, "Register", "Lock") /\ gs[h].name = gs[g].name
    /\ At(k, "Register", "Lock") /\ gs[k].name = gs[g].name
    /\ gs[h].runner # gs[g].runner

\* ------------------------------------------------- Manager claims, continued
\* C21: a service configured with Enabled = false is never started: no call
\* enters its startService or invokes its runner, no container of it exists,
\* it is in no running set, and every startService of a service that lists
\* it as a dependency returned DependencyNotMet.
C21_DisabledNeverStarted ==
  \A n \in DOMAIN config :
    ~config[n].Enabled =>
      /\ n \notin DOMAIN running
      /\ n \notin DOMAIN tempManager.running
      /\ n \notin DOMAIN tempManager.config
      /\ n \notin hist.attempted
      /\ hist.runCalls[n] = 0
      /\ \A c \in DOMAIN containers : c.svc # n
      /\ \A m \in DOMAIN hist.uerr :
           (m \in DOMAIN config /\ n \in DepSet(config, m))
             => hist.uerr[m].kind = "DependencyNotMet"

C21_Witness ==
  /\ Returned("Start")
  /\ \E n, m \in DOMAIN config :
       /\ ~config[n].Enabled
       /\ config[m].Enabled
       /\ result.err = ErrDependencyNotMet(m, n)

\* The configuration startService was given for service n in the current call.
UnitConfig(n) == IF hist.op = "Start" THEN config[n] ELSE hist.was[n].Config

\* Every dependency check startService makes for n has been made and passed.
DepsPassed(n) ==
  \A d \in Range(UnitConfig(n).Dependencies) :
    /\ \E k \in hist.checks : k.svc = n /\ k.dep = d /\ k.ok
    /\ ~\E k \in hist.checks : k.svc = n /\ k.dep = d /\ ~k.ok

\* A container of n was inserted into a running set by the current call.
Stored(n) == \E c \in hist.stored : c.svc = n

\* C25: startService goes through dependency check, registry lookup, runner
\* and health check in that order: the runner is invoked only after every
\* dependency check passed and the lookup succeeded, the health check only
\* after the runner, the record is inserted only after all of them passed;
\* the error returned is that of the first failing step (DependencyNotMet
\* naming the dependency, ServiceNotFound, ServiceStartFailed with the
\* runner's error, HealthCheckFailed with the check's error) and no later
\* step ran.
C25_StepOrder ==
  \A n \in Names :
    /\ hist.runCalls[n] <= 1 /\ hist.hcCalls[n] <= hist.runCalls[n]
    /\ hist.runCalls[n] = 1 => n \in hist.attempted /\ DepsPassed(n) /\ n \in registry
    /\ hist.hcCalls[n] = 1 => UnitConfig(n).HealthCheck
    /\ Stored(n) => /\ hist.runCalls[n] = 1
                    /\ hist.hcCalls[n] = IF UnitConfig(n).HealthCheck THEN 1 ELSE 0
                    /\ n \in DOMAIN hist.uerr /\ hist.uerr[n] = NoErr
    /\ n \in DOMAIN hist.uerr =>
         LET e == hist.uerr[n] IN
           CASE e.kind = "DependencyNotMet" ->
                  /\ e.ServiceName = n
                  /\ \E k \in hist.checks : k.svc = n /\ k.dep = e.Detail /\ ~k.ok
                  /\ hist.runCalls[n] = 0 /\ ~Stored(n)
             [] e.kind = "ServiceNotFound" ->
                  /\ e = ErrServiceNotFound(n)
                  /\ DepsPassed(n) /\ n \notin registry
                  /\ hist.runCalls[n] = 0 /\ ~Stored(n)
             [] e.kind = "ServiceStartFailed" ->
                  /\ e = ErrServiceStartFailed(n, "run")
                  /\ hist.runCalls[n] = 1 /\ hist.hcCalls[n] = 0 /\ ~Stored(n)
             [] e.kind = "HealthCheckFailed" ->
                  /\ e = ErrHealthCheckFailed(n, "health")
                  /\ hist.runCalls[n] = 1 /\ hist.hcCalls[n] = 1 /\ ~Stored(n)
             [] OTHER -> e = NoErr /\ Stored(n)

C25_Witness ==
  \E n \in DOMAIN hist.uerr :
    /\ hist.uerr[n] = ErrServiceNotFound(n)
    /\ UnitConfig(n).Dependencies # <<>>
    /\ DepsPassed(n)

\* C29: with StopOnError = false a failing Start stops nothing: Stop is not
\* entered, Terminate is invoked on no container that was stored in the
\* running set, no record is deleted, and when Start returns the error every
\* service whose startService succeeded (in an earlier group or next to the
\* failing unit) is in the running set with the container it was stored with.
C29_NoRollback ==
  (hist.op = "Start" /\ ~mconfig.StopOnError) =>
    /\ pc \notin {"Start.cleanup", "Stop"}
    /\ hist.gone = {}
    /\ \A c \in hist.stored : c \notin DOMAIN hist.termCalls /\ ~containers[c].terminated
    /\ \A n \in Names :
         Stored(n) => n \in DOMAIN running /\ running[n].Container \in hist.stored
    /\ (Returned("Start") /\ result.err # NoErr) =>
         \A n \in DOMAIN hist.uerr : hist.uerr[n] = NoErr => n \in DOMAIN running

C29_Witness ==
  /\ Returned("Start")
  /\ result.err.kind = "ServiceStartFailed"
  /\ ~mconfig.StopOnError
  /\ \E n, m \in DOMAIN running :
       /\ config[n].Priority < config[result.err.ServiceName].Priority
       /\ config[m].Priority = config[result.err.ServiceName].Priority

\* The rollback a failing Start makes under DefaultManagerConfig: Terminate
\* is invoked on every container stored by the call, and nothing is left
\* running unless a cleanup termination failed.
RolledBack ==
  /\ \A c \in hist.stored : c \in DOMAIN hist.termCalls
  /\ hist.stopErrs = {} => DOMAIN running = {}

\* C24: a Manager built from a ManagerConfig literal that does not set
\* StopOnError rolls back when Start fails, as one built from
\* DefaultManagerConfig does.
C24_StopOnErrorDefault ==
  \A l \in ManagerConfigLiterals :
    ("StopOnError" \notin DOMAIN l /\ mconfig = ManagerConfigOf(l))
      => ((Returned("Start") /\ result.err # NoErr) => RolledBack)

\* C23: every Manager call that has begun eventually returns, for every
\* ManagerConfig the manager can be built with, MaxParallel = 0 included.
C23_NoBlocking == (pc # "idle") ~> (pc = "idle")

\* ---------------------------------------------------- Manager.mu claims
Accessors == {"Get", "GetContainer", "IsRunning", "ListRunning"}
TypedGetters == {"GetPostgres", "MustGetPostgres"}

\* Goroutine g, executing one of the methods in S, takes a step.
StepOf(g, S) ==
  /\ ths[g].pc # ths'[g].pc
  /\ ths[g].op \in S \/ ths'[g].op \in S

\* C22: no step of Get, GetContainer, IsRunning or ListRunning changes the
\* running set; what each returns is read from the running set as it is at
\* that moment: Get and GetContainer return ServiceNotRunning exactly when
\* IsRunning is false for the name and the stored record / its container
\* otherwise, IsRunning tells whether the name is a key, ListRunning returns
\* the keys in ascending order.
C22_PureReads ==
  /\ [](\A g \in Threads :
          ths[g].pc = "RUnlock" =>
            LET t == ths[g] IN
              CASE t.op = "Get" ->
                     /\ (t.ret.err = ErrServiceNotRunning(t.name)) <=> ~IsRunning(t.name)
                     /\ IsRunning(t.name) =>
                          t.ret.err = NoErr /\ t.ret.env = running[t.name]
                [] t.op = "GetContainer" ->
                     /\ (t.ret.err = ErrServiceNotRunning(t.name)) <=> ~IsRunning(t.name)
                     /\ IsRunning(t.name) =>
                          /\ t.ret.err = NoErr
                          /\ t.ret.container = running[t.name].Container
                [] t.op = "IsRunning" -> t.ret.ok = (t.name \in DOMAIN running)
                [] t.op = "ListRunning" -> t.ret.names = SortedSeqOf(DOMAIN running)
                [] OTHER -> TRUE)
  /\ [][\A g \in Threads : StepOf(g, Accessors) => running' = running]_vars

C22_Witness ==
  \E g, h \in Threads :
    /\ ths[g].pc = "RUnlock"
    /\ ths[g].op = "GetContainer"
    /\ ths[g].ret.err = NoErr
    /\ ths[g].ret.container = running[ths[g].name].Container
    /\ ths[h].pc \in ContainerCalls

\* C26: m.mu is held only at a read or a mutation of the running set, never
\* by a goroutine that is inside Run, Check or Terminate, so a goroutine that
\* waits for the mutex waits for a goroutine at the map, never for a
\* container call.
C26_LockScope ==
  \A g \in Threads :
    /\ ths[g].pc \in ContainerCalls => mmu.w # g /\ g \notin mmu.r
    /\ (mmu.w = g \/ g \in mmu.r) => ths[g].pc \in MapSections
    /\ (ths[g].pc = "RLock" /\ ~MuCanRLock)
         => \E h \in Threads \ {g} : ths[h].pc \in {"store", "delete", "Unlock"}
    /\ (ths[g].pc = "Lock" /\ ~MuCanLock)
         => \E h \in Threads \ {g} : ths[h].pc \in MapSections

\* A startService that began after another goroutine had entered Run has
\* inserted its record while that Run is still in progress.
C26_Witness ==
  \E g, h \in Threads :
    /\ ths[h].pc = "Run"
    /\ h \in ths[g].during
    /\ ths[g].op = "startService"
    /\ ths[g].pc = "Unlock"
    /\ ths[g].name \in DOMAIN running

\* C27: GetPostgres returns ServiceNotRunning when "postgres" has no running
\* record, ServiceTypeMismatch when the record's container is not a
\* *psql.Env, and the container otherwise; MustGetPostgres panics exactly
\* when GetPostgres returns an error; no step of either changes the running
\* set.
C27_TypedGetter ==
  /\ [](\A g \in Threads :
          ths[g].op \in TypedGetters =>
            LET t == ths[g]
                found == t.ret.env.Container # NoContainer
            IN /\ t.pc = "RUnlock" =>
                    /\ found = IsRunning(Postgres)
                    /\ found => t.ret.env = running[Postgres]
               /\ t.pc \in {"must", "return"} =>
                    /\ ~found => t.ret.err = ErrServiceNotRunning(Postgres)
                    /\ (found /\ containers[t.ret.env.Container].type # PsqlEnv)
                         => /\ t.ret.err = ErrServiceTypeMismatch(Postgres, PsqlEnv)
                            /\ t.ret.container = NoContainer
                    /\ (found /\ containers[t.ret.env.Container].type = PsqlEnv)
                         => /\ t.ret.err = NoErr
                            /\ t.ret.container = t.ret.env.Container
               /\ t.pc = "return" =>
                    t.ret.panic = (t.op = "MustGetPostgres" /\ t.ret.err # NoErr))
  /\ [][\A g \in Threads : StepOf(g, TypedGetters) => running' = running]_vars

C27_Witness ==
  \E g \in Threads :
    /\ ths[g].op = "MustGetPostgres"
    /\ ths[g].pc = "return"
    /\ ths[g].ret.panic
    /\ ths[g].ret.err = ErrServiceTypeMismatch(Postgres, PsqlEnv)

\* The calls of the goroutine that build a map, and the position of the
\* first name of the last call that DefaultRegistry did not have (0: none).
BuilderOps == {"WithService", "WithServices", "NewServicesMap"}
FirstUnregistered ==
  LET bad == {i \in 1..Len(bld.names) : bld.names[i] \notin bld.has}
  IN IF bad = {} THEN 0 ELSE CHOOSE i \in bad : \A j \in bad : i <= j

\* C28 as stated: NewServicesMap(names...) and Builder.WithService(name)
\* panic when a given name is not registered in DefaultRegistry at the time
\* of the call, and otherwise yield a map containing exactly the given names;
\* after a panic the builder's map has no entry for the unregistered name.
C28_PanicLeavesNoEntry ==
  bld.op \in BuilderOps =>
    /\ bld.panicked <=> FirstUnregistered # 0
    /\ (~bld.panicked /\ bld.op = "NewServicesMap") =>
         /\ DOMAIN bld.m = Range(bld.names)
         /\ \A n \in DOMAIN bld.m : bld.m[n] = RootConfig("")
    /\ (~bld.panicked /\ bld.op # "NewServicesMap") =>
         /\ DOMAIN bld.services = DOMAIN bld.before \cup Range(bld.names)
         /\ \A n \in Range(bld.names) : bld.services[n] = RootConfig(bld.opts)
    /\ (bld.panicked /\ bld.op # "NewServicesMap") =>
         bld.names[FirstUnregistered] \notin DOMAIN bld.services

\* C28 (amended): NewServicesMap(names...) and Builder.WithService(name)
\* panic exactly when a given name is not registered in DefaultRegistry at
\* the time of the call; otherwise NewServicesMap returns a map of exactly
\* the given names with empty configurations, and the builder's map gains
\* exactly the given names, each with Config{Opts: opts}, its other entries
\* staying as they were.  A panicking call adds no entry for the
\* unregistered name: NewServicesMap returns nothing, WithService leaves the
\* builder's map as it was before the call (an entry the name got while it
\* was registered stays), and WithServices has added only the names that
\* precede the unregistered one.
C28_PanicAddsNoEntry ==
  bld.op \in BuilderOps =>
    /\ bld.panicked <=> FirstUnregistered # 0
    /\ (~bld.panicked /\ bld.op = "NewServicesMap") =>
         /\ DOMAIN bld.m = Range(bld.names)
         /\ \A n \in DOMAIN bld.m : bld.m[n] = RootConfig("")
         /\ bld.services = bld.before
    /\ (~bld.panicked /\ bld.op # "NewServicesMap") =>
         /\ DOMAIN bld.services = DOMAIN bld.before \cup Range(bld.names)
         /\ \A n \in Range(bld.names) : bld.services[n] = RootConfig(bld.opts)
         /\ \A n \in DOMAIN bld.before \ Range(bld.names) :
              bld.services[n] = bld.before[n]
    /\ (bld.panicked /\ bld.op = "NewServicesMap") =>
         bld.m = NoMap /\ bld.services = bld.before
    /\ (bld.panicked /\ bld.op = "WithService") => bld.services = bld.before
    /\ (bld.panicked /\ bld.op = "WithServices") =>
         LET k == FirstUnregistered
             added == {bld.names[i] : i \in 1..(k - 1)}
         IN /\ DOMAIN bld.services = DOMAIN bld.before \cup added
            /\ \A n \in added : bld.services[n] = RootConfig("")
            /\ \A n \in DOMAIN bld.before \ added : bld.services[n] = bld.before[n]

\* WithService panicked on a name that was unregistered after the builder got
\* an entry for it: the entry is still there.
C28_Witness ==
  /\ bld.op = "WithService"
  /\ bld.panicked
  /\ bld.names[1] \in DOMAIN bld.services

\* C30: CallMain runs the tests only if the environment started
\* successfully, and in every case (start failed, tests passed, tests
\* failed, tests panicked) calls env.Stop exactly once after that and before
\* exiting; the exit code is 1 when start failed or the tests panicked.
C30_CallMain ==
  LET made(c) == Cardinality({i \in 1..Len(main.log) : main.log[i] = c})
  IN /\ made("Run") > 0 => main.started = "nil"
     /\ made("Stop") > 0 =>
          \/ main.started = "err" /\ main.log[2] = "Stop"
          \/ main.started = "nil" /\ main.tests # "-"
               /\ main.log[2] = "Run" /\ main.log[3] = "Stop"
     /\ main.at = "exited" =>
          /\ made("Stop") = 1
          /\ made("Run") = (IF main.started = "nil" THEN 1 ELSE 0)
          /\ main.log[Len(main.log)] = "Exit" /\ made("Exit") = 1
          /\ main.log[Len(main.log) - 1] = "Stop"
          /\ (main.started = "err" \/ main.tests = "panicked") => main.exitCode = 1
          /\ main.tests = "returned" => main.exitCode \in {main.code, 1}

\* CallMain exited with code 1 after the tests panicked, and env.Stop has
\* terminated what env.Start created.
C30_Witness ==
  /\ main.at = "exited"
  /\ main.tests = "panicked"
  /\ main.exitCode = 1
  /\ running = EmptyMap
  /\ \E c \in DOMAIN containers : containers[c].terminated

\* C34 as stated: the Manager owns every container from creation until
\* termination: when a Start, Stop, Restart or RestartAll call has returned,
\* every container a runner created and on which Terminate has not been
\* invoked is held by exactly one record of the running set (the running set
\* is keyed by name, so there is at most one record per name).
C34_Ownership ==
  pc = "idle" =>
    \A c \in DOMAIN containers :
      containers[c].calls = 0 =>
        Cardinality({n \in DOMAIN running : running[n].Container = c}) = 1

\* C35: Restart is not atomic.  When the stop phase of a Restart of a
\* running service fails, Restart returns that error, no runner is invoked
\* and the service keeps its original record; when the stop phase succeeds
\* and the start phase fails, Restart returns the error of startService, the
\* old container has been terminated (by the one Terminate call made on it)
\* and the service is absent from the running set.
C35_RestartNotAtomic ==
  (Returned("Restart") /\ hist.arg \in DOMAIN hist.was) =>
    LET n == hist.arg
        old == hist.was[n].Container
        stopFailed == hist.stopErrs # {}
    IN /\ stopFailed =>
            /\ result.err \in hist.stopErrs
            /\ result.err.kind = "ServiceStopFailed"
            /\ \A m \in Names : hist.runCalls[m] = 0
            /\ n \in DOMAIN running /\ running[n] = hist.was[n]
            /\ ~containers[old].terminated
       /\ (~stopFailed /\ result.err # NoErr) =>
            /\ result.err.kind \in StartErrKinds
            /\ result.err = hist.uerr[n]
            /\ containers[old].terminated
            /\ old \in DOMAIN hist.termCalls /\ hist.termCalls[old] = 1
            /\ n \notin DOMAIN running
       /\ result.err = NoErr =>
            n \in DOMAIN running /\ running[n].Container # old

\* A Restart whose stop phase succeeded failed in its start phase: the old
\* container is terminated and the service, running before, is absent.
C35_Witness ==
  /\ Returned("Restart")
  /\ hist.arg \in DOMAIN hist.was
  /\ hist.stopErrs = {}
  /\ result.err.kind \in StartErrKinds
  /\ containers[hist.was[hist.arg].Container].terminated
  /\ hist.arg \notin DOMAIN running

\* C36: in Stop, Terminate is invoked on every service of the snapshot even
\* after a sibling's termination has failed: a goroutine past its Terminate
\* has invoked it once on its service's container, and Stop returns only
\* when every service of the snapshot has had its Terminate invoked.  The
\* first failure cancels the context the goroutines share: a Terminate that
\* returns after a sibling has failed was handed a cancelled context, one
\* that returns before any failure a live one.
C36_StopCancels ==
  /\ [](pc = "Stop" =>
          \A i \in DOMAIN seg.units :
            /\ seg.units[i].pc # "terminate" =>
                 /\ envs[i].Container \in DOMAIN hist.termCalls
                 /\ hist.termCalls[envs[i].Container] = 1
            /\ seg.units[i].ctx = "cancelled" =>
                 \E j \in DOMAIN seg.units \ {i} :
                   seg.units[j].err # NoErr /\ seg.units[j].ctx = "live")
  /\ [][(pc = "Stop" /\ pc' # "Stop") =>
          \A i \in 1..Len(envs) :
            /\ envs[i].Container \in DOMAIN hist.termCalls
            /\ hist.termCalls[envs[i].Container] = 1]_vars
  /\ [][\A i \in DOMAIN seg.units :
          (pc = "Stop" /\ seg.units[i].pc = "terminate"
             /\ i \in DOMAIN seg'.units /\ seg'.units[i].pc # "terminate")
          => /\ seg'.units[i].ctx =
                  (IF \E j \in DOMAIN seg.units : seg.units[j].err # NoErr
                   THEN "cancelled" ELSE "live")
             /\ hist'.termCalls[envs[i].Container] = 1]_vars

\* After one termination failed, a sibling's Terminate was invoked with the
\* cancelled context and failed as well: both services stay in the running
\* set.
C36_Witness ==
  /\ pc = "Stop"
  /\ self = "m"
  /\ \E i, j \in DOMAIN seg.units :
       /\ i # j
       /\ seg.units[i].err # NoErr /\ seg.units[i].ctx = "live"
       /\ seg.units[j].err # NoErr /\ seg.units[j].ctx = "cancelled"
       /\ envs[i].Name \in DOMAIN running /\ envs[j].Name \in DOMAIN running

\* C37 as stated: in every interleaving of concurrent Stop, Restart and
\* RestartAll calls on one Manager, Terminate is invoked at most once on each
\* container (never by two calls at a time, and never on a container that a
\* Terminate has already terminated), and a call that terminated a container
\* removes its own record only: when it deletes the name, the record under
\* that name, if any, holds the container it terminated.
C37_OwnRecordOnly ==
  /\ \A g, h \in Threads :
       (g # h /\ ths[g].pc = "Terminate" /\ ths[h].pc = "Terminate")
         => ths[g].env.Container # ths[h].env.Container
  /\ \A g \in Threads :
       ths[g].pc = "Terminate" => ~containers[ths[g].env.Container].terminated
  /\ \A g \in Threads :
       (ths[g].pc = "delete" /\ ths[g].name \in DOMAIN running)
         => running[ths[g].name].Container = ths[g].env.Container

\* C32: for all maps m1 and m2, diffMaps returns onlyInMap1 = the entries of
\* m1 whose key is absent from m2, onlyInMap2 = the entries of m2 whose key
\* is absent from m1, and differentValues = the keys present in both with
\* different values, carrying m1's value; the three results have pairwise
\* disjoint key sets and are all empty exactly when m1 = m2.
C32_DiffMaps ==
  dm.at = "returned" =>
    LET m1 == dm.map1
        m2 == dm.map2
        both == {k \in DOMAIN m1 \cap DOMAIN m2 : m1[k] # m2[k]}
    IN /\ dm.onlyInMap1 = [k \in DOMAIN m1 \ DOMAIN m2 |-> m1[k]]
       /\ dm.onlyInMap2 = [k \in DOMAIN m2 \ DOMAIN m1 |-> m2[k]]
       /\ dm.differentValues = [k \in both |-> m1[k]]
       /\ DOMAIN dm.onlyInMap1 \cap DOMAIN dm.onlyInMap2 = {}
       /\ DOMAIN dm.onlyInMap1 \cap DOMAIN dm.differentValues = {}
       /\ DOMAIN dm.onlyInMap2 \cap DOMAIN dm.differentValues = {}
       /\ (dm.onlyInMap1 = EmptyMap /\ dm.onlyInMap2 = EmptyMap
             /\ dm.differentValues = EmptyMap) <=> m1 = m2

\* The case of TestDiffMaps: each of the three results has an entry.
C32_Witness ==
  /\ dm.at = "returned"
  /\ dm.onlyInMap1 # EmptyMap
  /\ dm.onlyInMap2 # EmptyMap
  /\ dm.differentValues # EmptyMap

\* C33: WaitAppMigration terminates after at most Cycles query attempts: it
\* returns nil at the first attempt whose query returns a row that passes
\* Check, issuing no further query, and returns the 'too long' error exactly
\* when all Cycles attempts failed (immediately and without querying when
\* Cycles is 0).
C33_WaitAppMigration ==
  /\ [](LET passes(i) == /\ wm.attempts[i].kind = "row"
                         /\ wm.attempts[i].version >= wm.ExpectedVersion
            n == Len(wm.attempts)
        IN /\ n <= wm.Cycles
           /\ \A i \in 1..(n - 1) : ~passes(i)
           /\ (n > 0 /\ passes(n)) => (wm.at = "returned" /\ wm.ret = "nil")
           /\ (wm.at = "returned" /\ wm.ret = "nil") => (n > 0 /\ passes(n))
           /\ (wm.at = "returned" /\ wm.ret # "nil") =>
                /\ wm.ret = "migration step failed, too long"
                /\ n = wm.Cycles
                /\ \A i \in 1..n : ~passes(i)
           /\ wm.Cycles = 0 => wm.at \in {"loop", "returned"})
  /\ [][wm.at = "returned" => wm' = wm]_vars
  /\ [][(wm.at = "loop" /\ Len(wm.attempts) = wm.Cycles)
          => (wm'.at = "returned" /\ wm'.attempts = wm.attempts
                /\ wm'.ret = "migration step failed, too long")]_vars
  /\ <>(wm.at = "returned")

\* nil at the third attempt after an empty table and a version that was too
\* low.
C33_Witness ==
  /\ wm.at = "returned"
  /\ wm.ret = "nil"
  /\ Len(wm.attempts) = 3
  /\ wm.attempts[1].kind = "empty"
  /\ wm.attempts[2].kind = "row"

\* The newline-terminated lines of the stream s that contain the pattern.
RECURSIVE LinesWith(_, _)
LinesWith(s, pattern) ==
  LET r == ReadString(s)
  IN IF r.err # "nil" THEN 0
     ELSE (IF Contains(r.l, pattern) THEN 1 ELSE 0) + LinesWith(r.rest, pattern)

\* C38 as stated: when the whole output has been written, the detector's
\* count equals the number of newline-terminated lines of the concatenated
\* stream that contain the pattern, however the stream was split across
\* Write calls, so checkOutput reports the data-race error exactly when such
\* a line occurred.
C38_CountsLines ==
  pd.stream = <<>> =>
    /\ pd.count = LinesWith(pd.written, Pattern)
    /\ checkOutput # "nil" <=> LinesWith(pd.written, Pattern) > 0

\* C39 as stated: the Executor produced by Build depends only on that
\* builder's own settings: in any sequence of Build calls in one process, a
\* builder on which WithDebug / WithDebugPort was never called yields a
\* non-debug executor, and a builder without WithOutputFile and
\* WithDisableStdout yields an executor without output file and with stdout
\* enabled, whatever was built earlier.
C39_OwnSettingsOnly ==
  \A i \in 1..Len(xb.built) :
    LET b == xb.built[i].builder
        e == xb.built[i].executor
    IN /\ ~b.debug => ~e.debug
       /\ (b.outputFile = "" /\ ~b.disableStdout) => (e.outputFile = "" /\ e.stdout)

\* ---------------------------------------------------------------- Flow claims
\* The calls Flow.Start / Flow.Stop itself made in its latest call, in order
\* (the Serve goroutines of the mock servers left out).
Steps == SelectSeq(fl.log, LAMBDA e : e.ev # "serve")

\* The place of a step in the stated order; a mock server's Serve belongs to
\* the start of the mock servers.
StepNo(ev) ==
  CASE ev = "before" -> 1
    [] ev \in {"mocks", "serve"} -> 2
    [] ev = "app" -> 3
    [] ev = "after" -> 4
    [] ev = "merge" -> 5

\* The calls Flow.Start makes when nothing fails.
StartSteps ==
  (IF fl.before # "nil" THEN <<"before">> ELSE <<>>) \o <<"mocks", "app">>
    \o (IF fl.after # "nil" THEN <<"after">> ELSE <<>>)

\* C31 (as amended): Flow.Start calls the before callback, MocksHandler.Start,
\* the application's Start and the after callback in that order; a failed
\* before callback or a failed application Start is the last call Flow.Start
\* makes (the application is never started when the before callback returned
\* an error), and a Start in which neither failed makes every call.
C31_StartOrder ==
  fl.op = "Start" =>
    /\ Len(Steps) <= Len(StartSteps)
    /\ \A i \in 1..Len(Steps) :
         /\ Steps[i].ev = StartSteps[i]
         /\ ~Steps[i].ok => i = Len(Steps) /\ fl.at = "idle"
    /\ (fl.at = "idle" /\ \A i \in 1..Len(Steps) : Steps[i].ok)
         => Len(Steps) = Len(StartSteps)

\* A Start whose application failed to start: the after callback, though
\* given, was not called, and a mock server's Serve ran during the call.
C31_Witness ==
  /\ fl.op = "Start"
  /\ fl.at = "idle"
  /\ fl.before = "ok"
  /\ fl.after # "nil"
  /\ [i \in 1..Len(Steps) |-> Steps[i].ev] = <<"before", "mocks", "app">>
  /\ ~Steps[3].ok
  /\ \E i \in 1..Len(fl.log) : fl.log[i].ev = "serve"

\* C31 as stated: in Flow.Start the mock servers start before the
\* application, and after a step that failed (a mock server that did not
\* start included) no later step runs.
C31_NoStepAfterFailure ==
  fl.op = "Start" =>
    \A i, j \in 1..Len(fl.log) :
      i < j => /\ StepNo(fl.log[i].ev) <= StepNo(fl.log[j].ev)
               /\ ~fl.log[i].ok => StepNo(fl.log[j].ev) <= StepNo(fl.log[i].ev)

\* C40: a call of Flow.Stop that returned runs before callback, mock stop,
\* application stop and after callback in that order, invokes the
\* application's Stop exactly once when the before callback did not fail, and
\* merges the log-field statistics once, as its last step, when no step failed
\* and the application has a fields parser.
C40_StopOnce ==
  (fl.op = "Stop" /\ fl.at = "idle") =>
    LET apps == SelectSeq(Steps, LAMBDA e : e.ev = "app")
        merges == SelectSeq(Steps, LAMBDA e : e.ev = "merge")
        reached == \E i \in 1..Len(Steps) : Steps[i].ev = "mocks"
        clean == \A i \in 1..Len(Steps) : Steps[i].ev # "app" => Steps[i].ok
    IN /\ \A i, j \in 1..Len(Steps) :
            i < j => StepNo(Steps[i].ev) <= StepNo(Steps[j].ev)
       /\ Len(apps) = IF reached THEN 1 ELSE 0
       /\ Len(merges) = IF clean /\ apps # <<>> /\ apps[1].ok /\ fl.parser THEN 1 ELSE 0

====
